---- MODULE Spec2Model ----
(***************************************************************************)
(* Model of the tree walker of ipynb_ast (visit, transform, filter): the   *)
(* async recursive functions are run as an explicit call stack, one frame  *)
(* per visitNode / transformNode / filterNode activation, and every        *)
(* callback invocation is a call that stays pending until it settles.      *)
(* Nodes are heap objects with identity, so in-place mutation (transform)  *)
(* and copying (filter) can be told apart.                                 *)
(* The wrappers find, findAll, visitType and transformType run on the     *)
(* same engine.  The MIME classifier and selector are pure functions,      *)
(* written as operators and applied to inputs drawn from bounded sets.     *)
(***************************************************************************)
EXTENDS Integers, Sequences, FiniteSets, TLC

VARIABLES heap, orig, nNodes, op, reverse, tagged, stack, calls, res, out, inner, delay,
          status, result, found, error, mime, nb

vars == <<heap, orig, nNodes, op, reverse, tagged, stack, calls, res, out, inner, delay,
          status, result, found, error, mime, nb>>

\* the arguments of the operation, fixed for the run
input == <<orig, nNodes, op, reverse, tagged>>

(* ---------------------------------------------------------------- bounds *)
MaxNodes == 4
MaxDelay == 1
MaxList == 2
MaxStr == 1
MaxFrags == 2
MaxCells == 2
MaxOutputs == 2
MaxMdast == 1

(* -------------------------------------------------------- values, heap   *)
\* object ids: the input tree uses 1..nNodes, fresh objects come after them
MaxObj == 2 * MaxNodes
Obj == 1 .. MaxObj
\* the absent parent / the null result
NoNode == 0
\* the absent index (the optional parameter left out)
NoIndex == -1
\* a hole of a sparsely assigned array
Hole == 0
\* the tree handed to visit / transform / filter
Tree == 1

\* a slot of the heap that holds no object yet
Free == [alive |-> FALSE, data |-> 0, hasKids |-> FALSE, kids |-> <<>>, value |-> 0]

\* a callback that has been invoked and whose promise has not settled
Pending == "pending"
\* what a visitor may return: nothing, true, or the stop signal false
VisitorResults == {"undefined", "true", "false"}

\* 'children' in node && Array.isArray(node.children)
HasChildren(h, n) == h[n].hasKids

\* children[i] with the 0-based index of the source
At(children, i) == children[i + 1]

\* Array.from({length}, (_, i) => reverse ? length - 1 - i : i)
Indices(len, rev) == [j \in 1 .. len |-> IF rev THEN len - 1 - (j - 1) ELSE j - 1]

\* ids of the objects allocated so far
Alive(h) == {o \in Obj : h[o].alive}

\* the next unused object id
Fresh(h) == CHOOSE o \in Obj \ Alive(h) : \A p \in Obj \ Alive(h) : o <= p

(* ------------------------------------------------------- the input trees *)
\* proper ancestors of node n under the parent map par (par[1] = NoNode)
RECURSIVE AncestorsIn(_, _)
AncestorsIn(par, n) == IF par[n] = NoNode THEN {} ELSE {par[n]} \cup AncestorsIn(par, par[n])

\* parent maps of the ordered trees with n nodes, nodes numbered in document order
RECURSIVE ParentMaps(_)
ParentMaps(n) ==
  IF n = 1 THEN {[i \in {1} |-> NoNode]}
  ELSE {[i \in 1 .. n |-> IF i < n THEN pm[i] ELSE p] :
          pm \in ParentMaps(n - 1), p \in 1 .. (n - 1)}

\* a parent map is in document order when each node hangs off the path to its predecessor
DocOrder(par, n) ==
  \A i \in 2 .. n : par[i] \in ({i - 1} \cup AncestorsIn(par, i - 1))

\* the children sequence of p: its children in document order
RECURSIVE KidsFrom(_, _, _, _)
KidsFrom(par, n, p, i) ==
  IF i > n THEN <<>>
  ELSE IF par[i] = p THEN <<i>> \o KidsFrom(par, n, p, i + 1)
  ELSE KidsFrom(par, n, p, i + 1)

\* the heap holding the tree of parent map par; the nodes of emptyParents carry an empty
\* array; data stands for the node's own fields (type, metadata, ...), distinct per node
TreeHeap(par, n, emptyParents) ==
  [o \in Obj |->
     IF o > n THEN Free
     ELSE [alive   |-> TRUE,
           data    |-> o,
           hasKids |-> (KidsFrom(par, n, o, 1) # <<>>) \/ (o \in emptyParents),
           kids    |-> KidsFrom(par, n, o, 1),
           value   |-> 0]]

(* ------------------------------------------------------------ operations *)
\* the operations that run visit: visit itself and the ones built on it
VisitOps == {"visit", "visitType", "find", "findAll"}
\* the operations that run transform
TransformOps == {"transform", "transformType"}
\* find and findAll hand visit a visitor that awaits the predicate
FindOps == {"find", "findAll"}
\* visitType and transformType hand on a wrapper that tests node.type
TypeOps == {"visitType", "transformType"}

\* a callback that threw, or whose promise rejected
Rejected == "throw"
\* the supplied callback was not invoked for this call of the wrapper
NotInvoked == "none"
\* no call has thrown
NoCall == 0

\* node.type === type: tagged holds the nodes whose type is the requested one
IsType(h, n) == h[n].data \in tagged

(* ------------------------------------------------------------ call stack *)
Frame(node, index, parent, phase, call) ==
  [node |-> node, index |-> index, parent |-> parent, phase |-> phase, call |-> call,
   children |-> <<>>, indices |-> <<>>, k |-> 0, acc |-> <<>>, ret |-> 0]

Top == stack[Len(stack)]

SetTop(f) == [stack EXCEPT ![Len(stack)] = f]

Pop == SubSeq(stack, 1, Len(stack) - 1)

\* mutant: the type of the node is not tested
UserInvokedAlways(node) == TRUE

\* the callback handed in by the caller runs for this node: always, except under
\* visitType / transformType, where only for the nodes of the requested type
UserInvoked(node) == op \in TypeOps => IsType(heap, node)

\* the callback is invoked: visitor(node, index, parent) and its promise is outstanding
Invoke(node, index, parent) ==
  /\ calls' = Append(calls, [node |-> node, index |-> index, parent |-> parent])
  /\ res' = Append(res, Pending)
  /\ out' = Append(out, NoNode)
  /\ inner' = Append(inner, IF UserInvoked(node) THEN Pending ELSE NotInvoked)
  /\ delay' = 0

\* mutant: the await is missing, the continuation runs at once
NotAwaited(c) == TRUE

\* mutant: a rejection is taken for a value and the continuation runs
AwaitedOrRejected(c) == res[c] # Pending

\* `await`: the continuation runs only once the awaited call has resolved; when it
\* rejected the await throws instead
Awaited(c) == res[c] \notin {Pending, Rejected}

\* calls invoked and not yet settled
InFlight == {c \in 1 .. Len(calls) : res[c] = Pending}

(* ------------------------------------------------ MIME identifiers       *)
\* An identifier is the sequence of the pieces of its text, cut where the
\* prefixes and the suffix tested by the classifier end or begin, so that
\* startsWith / endsWith are prefix / suffix tests on the pieces.
TEXT_MIME_TYPES ==
  [PLAIN |-> <<"text/", "plain">>, HTML |-> <<"text/", "html">>,
   MARKDOWN |-> <<"text/", "markdown">>, LATEX |-> <<"text/", "latex">>,
   CSV |-> <<"text/", "csv">>, XML |-> <<"text/", "xml">>]

IMAGE_MIME_TYPES ==
  [PNG |-> <<"image/", "png">>, JPEG |-> <<"image/", "jpeg">>,
   GIF |-> <<"image/", "gif">>, SVG |-> <<"image/", "svg", "+xml">>,
   BMP |-> <<"image/", "bmp">>, WEBP |-> <<"image/", "webp">>]

APPLICATION_MIME_TYPES ==
  [JSON |-> <<"application/", "json">>,
   JAVASCRIPT |-> <<"application/", "javascript">>,
   PDF |-> <<"application/", "pdf">>,
   GEOJSON |-> <<"application/", "geo", "+json">>,
   XML |-> <<"application/", "xml">>]

JUPYTER_MIME_TYPES ==
  [WIDGET_VIEW |-> <<"application/", "vnd.", "jupyter.", "widget-view", "+json">>,
   WIDGET_STATE |-> <<"application/", "vnd.", "jupyter.", "widget-state", "+json">>,
   ERROR |-> <<"application/", "vnd.", "jupyter.", "error">>,
   STDIN |-> <<"application/", "vnd.", "jupyter.", "stdin">>]

VISUALIZATION_MIME_TYPES ==
  [PLOTLY_V1 |-> <<"application/", "vnd.", "plotly.", "v1", "+json">>,
   VEGA_V2 |-> <<"application/", "vnd.", "vega.", "v2", "+json">>,
   VEGA_V3 |-> <<"application/", "vnd.", "vega.", "v3", "+json">>,
   VEGA_V4 |-> <<"application/", "vnd.", "vega.", "v4", "+json">>,
   VEGA_V5 |-> <<"application/", "vnd.", "vega.", "v5", "+json">>,
   VEGALITE_V1 |-> <<"application/", "vnd.", "vegalite.", "v1", "+json">>,
   VEGALITE_V2 |-> <<"application/", "vnd.", "vegalite.", "v2", "+json">>,
   VEGALITE_V3 |-> <<"application/", "vnd.", "vegalite.", "v3", "+json">>,
   VEGALITE_V4 |-> <<"application/", "vnd.", "vegalite.", "v4", "+json">>,
   VEGALITE_V5 |-> <<"application/", "vnd.", "vegalite.", "v5", "+json">>,
   BOKEH |-> <<"application/", "vnd.", "bokehjs", "_exec.v0", "+json">>,
   HOLOVIEWS_EXEC |-> <<"application/", "vnd.", "holoviews", "_exec.v0", "+json">>,
   HOLOVIEWS_LOAD |-> <<"application/", "vnd.", "holoviews", "_load.v0", "+json">>]

\* Object.values of a table of identifiers
Values(table) == {table[k] : k \in DOMAIN table}

\* identifiers no table names: the unknown ones of the tests, a custom
\* vendor "+json" one, an image one and a visualization vendor's newer version
OtherMimeTypes ==
  {<<"unknown/", "type1">>, <<"unknown/", "type2">>,
   <<"application/", "vnd.", "custom", "+json">>,
   <<"image/", "tiff">>,
   <<"application/", "vnd.", "vega.", "v6", "+json">>}

\* the identifiers the functions are applied to
MimeTypes ==
  Values(TEXT_MIME_TYPES) \cup Values(IMAGE_MIME_TYPES)
    \cup Values(APPLICATION_MIME_TYPES) \cup Values(JUPYTER_MIME_TYPES)
    \cup Values(VISUALIZATION_MIME_TYPES) \cup OtherMimeTypes

\* the result undefined where an identifier is expected
Undefined == <<>>

TEXT_CONTENT_TYPES ==
  <<TEXT_MIME_TYPES.PLAIN, TEXT_MIME_TYPES.HTML, TEXT_MIME_TYPES.MARKDOWN,
    TEXT_MIME_TYPES.LATEX, TEXT_MIME_TYPES.CSV, TEXT_MIME_TYPES.XML,
    APPLICATION_MIME_TYPES.JAVASCRIPT, IMAGE_MIME_TYPES.SVG>>

BINARY_CONTENT_TYPES ==
  <<IMAGE_MIME_TYPES.PNG, IMAGE_MIME_TYPES.JPEG, IMAGE_MIME_TYPES.GIF,
    IMAGE_MIME_TYPES.BMP, IMAGE_MIME_TYPES.WEBP, APPLICATION_MIME_TYPES.PDF>>

JSON_CONTENT_TYPES ==
  <<APPLICATION_MIME_TYPES.JSON, APPLICATION_MIME_TYPES.GEOJSON,
    JUPYTER_MIME_TYPES.WIDGET_VIEW, JUPYTER_MIME_TYPES.WIDGET_STATE,
    VISUALIZATION_MIME_TYPES.PLOTLY_V1,
    VISUALIZATION_MIME_TYPES.VEGA_V2, VISUALIZATION_MIME_TYPES.VEGA_V3,
    VISUALIZATION_MIME_TYPES.VEGA_V4, VISUALIZATION_MIME_TYPES.VEGA_V5,
    VISUALIZATION_MIME_TYPES.VEGALITE_V1, VISUALIZATION_MIME_TYPES.VEGALITE_V2,
    VISUALIZATION_MIME_TYPES.VEGALITE_V3, VISUALIZATION_MIME_TYPES.VEGALITE_V4,
    VISUALIZATION_MIME_TYPES.VEGALITE_V5, VISUALIZATION_MIME_TYPES.BOKEH,
    VISUALIZATION_MIME_TYPES.HOLOVIEWS_EXEC, VISUALIZATION_MIME_TYPES.HOLOVIEWS_LOAD>>

IMAGE_CONTENT_TYPES ==
  <<IMAGE_MIME_TYPES.PNG, IMAGE_MIME_TYPES.JPEG, IMAGE_MIME_TYPES.GIF,
    IMAGE_MIME_TYPES.SVG, IMAGE_MIME_TYPES.BMP, IMAGE_MIME_TYPES.WEBP>>

\* Array.prototype.includes
Includes(list, x) == \E i \in DOMAIN list : list[i] = x

\* String.prototype.startsWith / endsWith on the pieces
StartsWith(s, p) == Len(s) >= Len(p) /\ SubSeq(s, 1, Len(p)) = p
EndsWith(s, p) == Len(s) >= Len(p) /\ SubSeq(s, Len(s) - Len(p) + 1, Len(s)) = p

(* ------------------------------------------------ MIME classification    *)
isTextMimeType(mimeType) == Includes(TEXT_CONTENT_TYPES, mimeType)

isBinaryMimeType(mimeType) == Includes(BINARY_CONTENT_TYPES, mimeType)

isJsonMimeType(mimeType) ==
  Includes(JSON_CONTENT_TYPES, mimeType) \/ EndsWith(mimeType, <<"+json">>)

isImageMimeType(mimeType) ==
  Includes(IMAGE_CONTENT_TYPES, mimeType) \/ StartsWith(mimeType, <<"image/">>)

isWidgetMimeType(mimeType) ==
  mimeType = JUPYTER_MIME_TYPES.WIDGET_VIEW \/ mimeType = JUPYTER_MIME_TYPES.WIDGET_STATE

isVisualizationMimeType(mimeType) ==
  \/ StartsWith(mimeType, <<"application/", "vnd.", "plotly.">>)
  \/ StartsWith(mimeType, <<"application/", "vnd.", "vega.">>)
  \/ StartsWith(mimeType, <<"application/", "vnd.", "vegalite.">>)
  \/ StartsWith(mimeType, <<"application/", "vnd.", "bokehjs">>)
  \/ StartsWith(mimeType, <<"application/", "vnd.", "holoviews">>)

\* (mutant) the "+json" test made before the widget and vendor tests
getMimeTypeCategoryJsonFirst(mimeType) ==
  IF isJsonMimeType(mimeType) THEN "json"
  ELSE IF isWidgetMimeType(mimeType) THEN "widget"
  ELSE IF isVisualizationMimeType(mimeType) THEN "visualization"
  ELSE IF isImageMimeType(mimeType) THEN "image"
  ELSE IF isBinaryMimeType(mimeType) THEN "binary"
  ELSE IF isTextMimeType(mimeType) THEN "text"
  ELSE "unknown"

getMimeTypeCategory(mimeType) ==
  IF isWidgetMimeType(mimeType) THEN "widget"
  ELSE IF isVisualizationMimeType(mimeType) THEN "visualization"
  ELSE IF isImageMimeType(mimeType) THEN "image"
  ELSE IF isJsonMimeType(mimeType) THEN "json"
  ELSE IF isBinaryMimeType(mimeType) THEN "binary"
  ELSE IF isTextMimeType(mimeType) THEN "text"
  ELSE "unknown"

(* ------------------------------------------------ MIME priority          *)
MIME_TYPE_PRIORITY ==
  (TEXT_MIME_TYPES.HTML :> 100)
    @@ (JUPYTER_MIME_TYPES.WIDGET_VIEW :> 95)
    @@ (VISUALIZATION_MIME_TYPES.PLOTLY_V1 :> 90)
    @@ (VISUALIZATION_MIME_TYPES.VEGALITE_V5 :> 88)
    @@ (VISUALIZATION_MIME_TYPES.VEGALITE_V4 :> 87)
    @@ (VISUALIZATION_MIME_TYPES.VEGALITE_V3 :> 86)
    @@ (VISUALIZATION_MIME_TYPES.VEGALITE_V2 :> 85)
    @@ (VISUALIZATION_MIME_TYPES.VEGALITE_V1 :> 84)
    @@ (VISUALIZATION_MIME_TYPES.VEGA_V5 :> 83)
    @@ (VISUALIZATION_MIME_TYPES.VEGA_V4 :> 82)
    @@ (VISUALIZATION_MIME_TYPES.VEGA_V3 :> 81)
    @@ (VISUALIZATION_MIME_TYPES.VEGA_V2 :> 80)
    @@ (IMAGE_MIME_TYPES.SVG :> 75)
    @@ (IMAGE_MIME_TYPES.PNG :> 70)
    @@ (IMAGE_MIME_TYPES.JPEG :> 65)
    @@ (IMAGE_MIME_TYPES.WEBP :> 64)
    @@ (IMAGE_MIME_TYPES.GIF :> 63)
    @@ (IMAGE_MIME_TYPES.BMP :> 60)
    @@ (TEXT_MIME_TYPES.MARKDOWN :> 55)
    @@ (TEXT_MIME_TYPES.LATEX :> 50)
    @@ (APPLICATION_MIME_TYPES.JSON :> 45)
    @@ (APPLICATION_MIME_TYPES.GEOJSON :> 44)
    @@ (APPLICATION_MIME_TYPES.JAVASCRIPT :> 40)
    @@ (TEXT_MIME_TYPES.PLAIN :> 10)

\* MIME_TYPE_PRIORITY[mimeType] ?? 0
getMimeTypePriority(mimeType) ==
  IF mimeType \in DOMAIN MIME_TYPE_PRIORITY THEN MIME_TYPE_PRIORITY[mimeType] ELSE 0

\* (mutant) the reducer that lets a later element of equal priority win
ReducerTakesTies(best, current) ==
  IF getMimeTypePriority(current) >= getMimeTypePriority(best) THEN current ELSE best

\* the callback of reduce: currentPriority > bestPriority ? current : best
Reducer(best, current) ==
  IF getMimeTypePriority(current) > getMimeTypePriority(best) THEN current ELSE best

\* Array.prototype.reduce without an initial value, from position i on
RECURSIVE Reduce(_, _, _)
Reduce(arr, i, acc) ==
  IF i > Len(arr) THEN acc ELSE Reduce(arr, i + 1, Reducer(acc, arr[i]))

selectBestMimeType(mimeTypes) ==
  IF Len(mimeTypes) = 0 THEN Undefined
  ELSE IF Len(mimeTypes) = 1 THEN mimeTypes[1]
  ELSE Reduce(mimeTypes, 2, mimeTypes[1])

(* ------------------------------------------------ MIME payloads          *)
\* A payload is a string (the sequence of its characters), an array of
\* strings, or any other value (an object).
StringData(s) == [kind |-> "string", str |-> s, items |-> <<>>]
ArrayData(a) == [kind |-> "array", str |-> <<>>, items |-> a]
ObjectData == [kind |-> "object", str |-> <<>>, items |-> <<>>]

\* Array.isArray(data)
IsArray(data) == data.kind = "array"

\* data.join(''): the elements one after the other, nothing in between
RECURSIVE Join(_)
Join(a) == IF a = <<>> THEN <<>> ELSE Head(a) \o Join(Tail(a))

\* (mutant) the join made for the identifiers of category 'text'
normalizeMimeDataByCategory(mimeType, data) ==
  IF getMimeTypeCategory(mimeType) = "text" /\ IsArray(data)
  THEN StringData(Join(data.items))
  ELSE data

normalizeMimeData(mimeType, data) ==
  IF isTextMimeType(mimeType) /\ IsArray(data)
  THEN StringData(Join(data.items))
  ELSE data

(* ------------------------------------------------ outputs                *)
\* An output is its type and the keys of its MIME bundle in the order of
\* Object.keys (stream and error outputs have no bundle).
OutputOf(type, keys) == [type |-> type, keys |-> keys]

\* (mutant) an error output reported as having no identifier
getOutputMimeTypesNoError(output) ==
  IF output.type = "stream" THEN <<TEXT_MIME_TYPES.PLAIN>>
  ELSE IF output.type \in {"displayData", "executeResult"} THEN output.keys
  ELSE <<>>

getOutputMimeTypes(output) ==
  IF output.type = "stream" THEN <<TEXT_MIME_TYPES.PLAIN>>
  ELSE IF output.type \in {"displayData", "executeResult"} THEN output.keys
  ELSE IF output.type = "error"
       THEN << <<"application/", "vnd.", "jupyter.", "error">> >>
  ELSE <<>>

getBestOutputMimeType(output) == selectBestMimeType(getOutputMimeTypes(output))

(* ------------------------------------------------ MIME inputs            *)
\* sequences over S of length at most n
SeqsUpTo(S, n) == UNION {[1 .. k -> S] : k \in 0 .. n}

\* the lists of identifiers handed to selectBestMimeType
MimeLists == SeqsUpTo(MimeTypes, MaxList)

\* the characters and strings of the payloads
Chars == {"a", "b"}
Strings == SeqsUpTo(Chars, MaxStr)

\* the payloads handed to normalizeMimeData
Payloads ==
  {StringData(s) : s \in Strings}
    \cup {ArrayData(a) : a \in SeqsUpTo(Strings, MaxFrags)}
    \cup {ObjectData}

\* the key lists of a bundle: an object has every key once
Bundles == {l \in MimeLists : \A i, j \in DOMAIN l : l[i] = l[j] => i = j}

\* the outputs handed to getBestOutputMimeType
Outputs ==
  {OutputOf("stream", <<>>), OutputOf("error", <<>>)}
    \cup {OutputOf(t, b) : t \in {"displayData", "executeResult"}, b \in Bundles}

\* no function applied yet
MimeIdle ==
  [fn |-> "none", id |-> Undefined, list |-> <<>>, payload |-> ObjectData,
   output |-> OutputOf("stream", <<>>), cat |-> "none", best |-> Undefined,
   data |-> ObjectData]

(* ------------------------------------------------ notebooks              *)
\* the tags a cell may carry and a tag list may name
Tags == {"t1", "t2"}

\* cell metadata: without a tags entry, or with the given tags
NoTags == [hasTags |-> FALSE, tags |-> {}]
WithTags(t) == [hasTags |-> TRUE, tags |-> t]

\* cell.metadata?.tags || []
CellTags(cell) == IF cell.metadata.hasTags THEN cell.metadata.tags ELSE {}

\* a cell and an output of the notebook document (the input of parse)
JupyterCell(cell_type, source, outputs, metadata) ==
  [cell_type |-> cell_type, source |-> source, outputs |-> outputs,
   metadata |-> metadata]
JupyterOutput(output_type, text, data) ==
  [output_type |-> output_type, text |-> text, data |-> data]

\* a node below a cell: a content node or an output node
NodeOf(type, value, text, data, children) ==
  [type |-> type, value |-> value, text |-> text, data |-> data,
   children |-> children]

\* a cell node; id is the identity of the object (the position of its
\* cell in the notebook)
CellOf(cellType, metadata, children) ==
  [type |-> "cell", cellType |-> cellType, metadata |-> metadata,
   children |-> children, id |-> 0]

\* Array.isArray(source) ? source.join('') : source
normalizeSource(source) == IF IsArray(source) THEN Join(source.items) ELSE source.str
normalizeText(text) == IF IsArray(text) THEN Join(text.items) ELSE text.str

\* (mutant) the payload of a bundle normalized like a text
parseOutputJoinsData(output) ==
  CASE output.output_type = "stream" ->
         NodeOf("stream", <<>>, normalizeText(output.text), ObjectData, <<>>)
    [] output.output_type = "display_data" ->
         NodeOf("displayData", <<>>, <<>>,
                IF IsArray(output.data) THEN StringData(Join(output.data.items))
                ELSE output.data, <<>>)
    [] output.output_type = "execute_result" ->
         NodeOf("executeResult", <<>>, <<>>, output.data, <<>>)
    [] output.output_type = "error" ->
         NodeOf("error", <<>>, <<>>, ObjectData, <<>>)

parseOutput(output) ==
  CASE output.output_type = "stream" ->
         NodeOf("stream", <<>>, normalizeText(output.text), ObjectData, <<>>)
    [] output.output_type = "display_data" ->
         NodeOf("displayData", <<>>, <<>>, output.data, <<>>)
    [] output.output_type = "execute_result" ->
         NodeOf("executeResult", <<>>, <<>>, output.data, <<>>)
    [] output.output_type = "error" ->
         NodeOf("error", <<>>, <<>>, ObjectData, <<>>)

\* (mutant) the outputs spread in reverse order
parseCodeCellReversed(cell) ==
  LET codeNode == NodeOf("code", normalizeSource(cell.source), <<>>, ObjectData, <<>>)
      n == Len(cell.outputs)
      outputNodes == [i \in 1 .. n |-> parseOutput(cell.outputs[n + 1 - i])]
  IN CellOf("code", cell.metadata, <<codeNode>> \o outputNodes)

parseCodeCell(cell) ==
  LET codeNode == NodeOf("code", normalizeSource(cell.source), <<>>, ObjectData, <<>>)
      outputNodes == [i \in DOMAIN cell.outputs |-> parseOutput(cell.outputs[i])]
  IN CellOf("code", cell.metadata, <<codeNode>> \o outputNodes)

\* parseMarkdownCell with parseMarkdown off: the source kept as a string
parseMarkdownCellPlain(cell) ==
  CellOf("markdown", cell.metadata,
         <<NodeOf("markdown", normalizeSource(cell.source), <<>>, ObjectData, <<>>)>>)

\* parseMarkdownCell with parseMarkdown on, once the mdast tree has arrived
parseMarkdownCellParsed(cell, mdastTree) ==
  CellOf("markdown", cell.metadata,
         <<NodeOf("parsedMarkdown", <<>>, <<>>,
                  StringData(normalizeSource(cell.source)), mdastTree)>>)

parseRawCell(cell) ==
  CellOf("raw", cell.metadata,
         <<NodeOf("raw", normalizeSource(cell.source), <<>>, ObjectData, <<>>)>>)

\* the children of the mdast trees the markdown processor may return
MdastTrees == {[k \in 1 .. n |-> "mdast"] : n \in 0 .. MaxMdast}

(* ------------------------------------------------ notebook inputs        *)
\* the characters of the cell sources: a letter and a blank
SourceChars == {"a", " "}

\* a source that is one string, not blank
PlainSource == StringData(<<"a">>)

\* the outputs by type, with a plain payload
PlainOutputs ==
  {JupyterOutput(t, PlainSource, ObjectData) :
     t \in {"stream", "display_data", "execute_result", "error"}}

\* cells that differ in their source: empty, blank and not blank
ContentCells ==
  {JupyterCell(t, StringData(s), <<>>, NoTags) :
     t \in {"code", "markdown", "raw"}, s \in SeqsUpTo(SourceChars, MaxStr)}

\* code cells that differ in the number of their outputs
StreamCells ==
  {JupyterCell("code", PlainSource, o, NoTags) :
     o \in SeqsUpTo({JupyterOutput("stream", PlainSource, ObjectData)}, MaxOutputs)}

\* cells that differ in their tags
TagCells ==
  {JupyterCell("code", PlainSource, <<>>, m) :
     m \in {NoTags} \cup {WithTags(ts) : ts \in SUBSET Tags}}

\* cells that differ in the outputs they hold
OutputCells ==
  {JupyterCell("code", PlainSource, o, NoTags) : o \in SeqsUpTo(PlainOutputs, MaxOutputs)}
    \cup {JupyterCell(t, PlainSource, <<>>, NoTags) : t \in {"markdown", "raw"}}

\* the texts of a source or of a stream: a string or fragments
Texts == {d \in Payloads : d.kind \in {"string", "array"}}

\* cells that differ in their texts and payloads, with one output at most
TextCells ==
  {JupyterCell("code", s, o, NoTags) :
     s \in Texts,
     o \in {<<>>}
        \cup {<<JupyterOutput("stream", t, ObjectData)>> : t \in Texts}
        \cup {<<JupyterOutput(k, PlainSource, d)>> :
                k \in {"display_data", "execute_result"}, d \in Payloads}}
    \cup {JupyterCell(t, s, <<>>, NoTags) : t \in {"markdown", "raw"}, s \in Texts}

(* ------------------------------------------------ notebook state         *)
\* no cell converted yet / no root returned
NoCell == CellOf("none", NoTags, <<>>)
NoRoot == [type |-> "none", children |-> <<>>]
RootOf(cells) == [type |-> "root", children |-> cells]

\* nothing parsed
NbIdle ==
  [cells |-> <<>>, parseMarkdown |-> FALSE, promises |-> <<>>, converted |-> <<>>,
   settled |-> <<>>, status |-> "none", root |-> NoRoot]

\* parse about to be called on a notebook with the given cells
NbInit(cellSeqs) ==
  \E cs \in cellSeqs, pm \in BOOLEAN :
    nb = [NbIdle EXCEPT !.cells = cs, !.parseMarkdown = pm, !.status = "idle"]

(* ------------------------------------------------------------------ Init *)
InitOps(ops) ==
  /\ nNodes \in 1 .. MaxNodes
  /\ \E par \in ParentMaps(nNodes) :
       /\ DocOrder(par, nNodes)
       /\ \E emptyParents \in SUBSET {i \in 1 .. nNodes : KidsFrom(par, nNodes, i, 1) = <<>>} :
            heap = TreeHeap(par, nNodes, emptyParents)
  /\ orig = heap
  /\ op \in ops
  /\ reverse \in (IF op \in FindOps THEN {FALSE} ELSE BOOLEAN)
  /\ tagged \in (IF op \in TypeOps THEN SUBSET (1 .. nNodes) ELSE {{}})
  /\ stack = <<>>
  /\ calls = <<>>
  /\ res = <<>>
  /\ out = <<>>
  /\ inner = <<>>
  /\ found = <<>>
  /\ error = NoCall
  /\ delay = 0
  /\ status = "idle"
  /\ result = NoNode
  /\ mime = MimeIdle
  /\ nb = NbIdle

(* ------------------------------------------------------------ callbacks  *)
\* time passes while the latest callback is suspended
CallbackTick ==
  /\ status = "running"
  /\ InFlight # {}
  /\ delay < MaxDelay
  /\ delay' = delay + 1
  /\ UNCHANGED <<heap, input, mime, nb, stack, calls, res, out, inner, status, result, found, error>>

\* the visitor returns (its promise resolves); under visitType the wrapper returns the
\* visitor's own promise, so the visitor's result is the result of the call
VisitorSettle ==
  /\ status = "running"
  /\ op \in {"visit", "visitType"}
  /\ \E c \in InFlight : \E r \in VisitorResults :
       /\ inner[c] = Pending
       /\ res' = [res EXCEPT ![c] = r]
       /\ inner' = [inner EXCEPT ![c] = r]
  /\ delay' = 0
  /\ UNCHANGED <<heap, input, mime, nb, stack, calls, out, status, result, found, error>>

\* visitType / transformType on a node of another type: the wrapper returns nothing
\* and the supplied callback is not invoked
WrapperSkip ==
  /\ status = "running"
  /\ op \in TypeOps
  /\ \E c \in InFlight :
       /\ inner[c] = NotInvoked
       /\ res' = [res EXCEPT ![c] = "undefined"]
  /\ delay' = 0
  /\ UNCHANGED <<heap, input, mime, nb, stack, calls, out, inner, status, result, found, error>>

(* ------------------------------------------------------------------ visit *)
\* mutant: any falsy result stops the traversal
VisitStopsOnFalsy(r) == r # "true"

\* if (result === false) return false
VisitStops(r) == r = "false"

\* visit(tree, visitor, options): await visitNode(tree) runs up to the first await
VisitStart ==
  /\ status = "idle"
  /\ op \in VisitOps
  /\ status' = "running"
  /\ stack' = <<Frame(Tree, NoIndex, NoNode, "await", Len(calls) + 1)>>
  /\ Invoke(Tree, NoIndex, NoNode)
  /\ UNCHANGED <<heap, input, mime, nb, result, found, error>>

\* visitNode after `await visitor(...)`: stop, or set up the loop over the children
VisitResume ==
  /\ status = "running"
  /\ op \in VisitOps
  /\ stack # <<>>
  /\ Top.phase = "await"
  /\ Awaited(Top.call)
  /\ IF VisitStops(res[Top.call])
       THEN stack' = SetTop([Top EXCEPT !.phase = "return", !.ret = 0])
       ELSE IF HasChildren(heap, Top.node)
         THEN stack' = SetTop([Top EXCEPT !.phase = "loop",
                                          !.children = heap[Top.node].kids,
                                          !.indices = Indices(Len(heap[Top.node].kids), reverse),
                                          !.k = 0])
         ELSE stack' = SetTop([Top EXCEPT !.phase = "return", !.ret = 1])
  /\ UNCHANGED <<heap, input, mime, nb, calls, res, out, inner, delay, status, result, found, error>>

\* for (const i of indices) await visitNode(children[i], i, node)
VisitDescend ==
  /\ status = "running"
  /\ op \in VisitOps
  /\ stack # <<>>
  /\ Top.phase = "loop"
  /\ Top.k < Len(Top.indices)
  /\ LET i == Top.indices[Top.k + 1]
     IN /\ stack' = Append(stack, Frame(At(Top.children, i), i, Top.node, "await", Len(calls) + 1))
        /\ Invoke(At(Top.children, i), i, Top.node)
  /\ UNCHANGED <<heap, input, mime, nb, status, result, found, error>>

\* the loop is exhausted: return true
VisitLoopEnd ==
  /\ status = "running"
  /\ op \in VisitOps
  /\ stack # <<>>
  /\ Top.phase = "loop"
  /\ Top.k = Len(Top.indices)
  /\ stack' = SetTop([Top EXCEPT !.phase = "return", !.ret = 1])
  /\ UNCHANGED <<heap, input, mime, nb, calls, res, out, inner, delay, status, result, found, error>>

\* mutant: the result of the child's visitNode is not looked at
VisitReturnIgnoresStop ==
  /\ status = "running"
  /\ op \in VisitOps
  /\ Len(stack) > 1
  /\ Top.phase = "return"
  /\ stack' = Append(SubSeq(stack, 1, Len(stack) - 2),
                     [stack[Len(stack) - 1] EXCEPT !.k = @ + 1])
  /\ UNCHANGED <<heap, input, mime, nb, calls, res, out, inner, delay, status, result, found, error>>

\* a child's visitNode returned: if (!shouldContinue) return false, else next index
VisitReturn ==
  /\ status = "running"
  /\ op \in VisitOps
  /\ Len(stack) > 1
  /\ Top.phase = "return"
  /\ LET caller == stack[Len(stack) - 1]
     IN stack' = Append(SubSeq(stack, 1, Len(stack) - 2),
                        IF Top.ret = 0
                          THEN [caller EXCEPT !.phase = "return", !.ret = 0]
                          ELSE [caller EXCEPT !.k = @ + 1])
  /\ UNCHANGED <<heap, input, mime, nb, calls, res, out, inner, delay, status, result, found, error>>

\* visitNode(tree) returned: visit resolves with no value
VisitFinish ==
  /\ status = "running"
  /\ op \in {"visit", "visitType"}
  /\ Len(stack) = 1
  /\ Top.phase = "return"
  /\ stack' = <<>>
  /\ status' = "done"
  /\ result' = NoNode
  /\ UNCHANGED <<heap, input, mime, nb, calls, res, out, inner, delay, found, error>>

(* -------------------------------------------------------------- transform *)
\* what a transformer may do: return nothing, return false, return the node
\* it was given, or return a new node built from it ({...node, value: changed})
TransformerResults == {"undefined", "false", "same", "copy"}

\* a value that `||` and `if` treat as absent
Falsy(r) == r \in {"undefined", "false"}

\* result || node
OrNode(r, o, node) == IF Falsy(r) THEN node ELSE o

\* mutant: the slot is mirrored when reverse is off
NewChildrenSlotFlipped(len, i, rev) == IF rev THEN i ELSE len - 1 - i

\* the 0-based slot of newChildren that receives the result for children[i]
NewChildrenSlot(len, i, rev) == IF rev THEN len - 1 - i ELSE i

\* arr[p] = v on a JavaScript array: slots between the old end and p stay holes
ArraySet(arr, p, v) ==
  [j \in 1 .. (IF p + 1 > Len(arr) THEN p + 1 ELSE Len(arr)) |->
     IF j = p + 1 THEN v ELSE IF j <= Len(arr) THEN arr[j] ELSE Hole]

\* the transformer returns (its promise resolves)
TransformerSettle ==
  /\ status = "running"
  /\ op \in TransformOps
  /\ \E c \in InFlight : \E r \in TransformerResults :
       LET n == calls[c].node
       IN /\ inner[c] = Pending
          /\ CASE Falsy(r) ->
                 /\ res' = [res EXCEPT ![c] = r]
                 /\ inner' = [inner EXCEPT ![c] = r]
                 /\ UNCHANGED <<out, heap>>
            [] r = "same" ->
                 /\ res' = [res EXCEPT ![c] = "node"]
                 /\ inner' = [inner EXCEPT ![c] = "node"]
                 /\ out' = [out EXCEPT ![c] = n]
                 /\ UNCHANGED heap
            [] r = "copy" ->
                 /\ res' = [res EXCEPT ![c] = "node"]
                 /\ inner' = [inner EXCEPT ![c] = "node"]
                 /\ out' = [out EXCEPT ![c] = Fresh(heap)]
                 /\ heap' = [heap EXCEPT ![Fresh(heap)] = [heap[n] EXCEPT !.value = 1]]
  /\ delay' = 0
  /\ UNCHANGED <<input, mime, nb, stack, calls, status, result, found, error>>

\* transform(tree, transformer, options): return transformNode(tree)
TransformStart ==
  /\ status = "idle"
  /\ op \in TransformOps
  /\ status' = "running"
  /\ stack' = <<Frame(Tree, NoIndex, NoNode, "enter", 0)>>
  /\ UNCHANGED <<heap, input, mime, nb, calls, res, out, inner, delay, result, found, error>>

\* (mutant) node.children = newChildren assigned before the loop
TransformEnterAssignsFirst ==
  /\ status = "running"
  /\ op \in TransformOps
  /\ stack # <<>>
  /\ Top.phase = "enter"
  /\ HasChildren(heap, Top.node)
  /\ stack' = SetTop([Top EXCEPT !.phase = "loop",
                                 !.children = heap[Top.node].kids,
                                 !.indices = Indices(Len(heap[Top.node].kids), reverse),
                                 !.acc = <<>>,
                                 !.k = 0])
  /\ heap' = [heap EXCEPT ![Top.node].kids = <<>>]
  /\ UNCHANGED <<input, mime, nb, calls, res, out, inner, delay, status, result, found, error>>

\* transformNode on a node with a children array: set up the loop
TransformEnter ==
  /\ status = "running"
  /\ op \in TransformOps
  /\ stack # <<>>
  /\ Top.phase = "enter"
  /\ HasChildren(heap, Top.node)
  /\ stack' = SetTop([Top EXCEPT !.phase = "loop",
                                 !.children = heap[Top.node].kids,
                                 !.indices = Indices(Len(heap[Top.node].kids), reverse),
                                 !.acc = <<>>,
                                 !.k = 0])
  /\ UNCHANGED <<heap, input, mime, nb, calls, res, out, inner, delay, status, result, found, error>>

\* for (const i of indices) await transformNode(children[i], i, node)
TransformDescend ==
  /\ status = "running"
  /\ op \in TransformOps
  /\ stack # <<>>
  /\ Top.phase = "loop"
  /\ Top.k < Len(Top.indices)
  /\ LET i == Top.indices[Top.k + 1]
     IN stack' = Append(stack, Frame(At(Top.children, i), i, Top.node, "enter", 0))
  /\ UNCHANGED <<heap, input, mime, nb, calls, res, out, inner, delay, status, result, found, error>>

\* (mutant) the result for a child installed in the parent as soon as it arrives
TransformReturnInstalls ==
  /\ status = "running"
  /\ op \in TransformOps
  /\ Len(stack) > 1
  /\ Top.phase = "return"
  /\ LET caller == stack[Len(stack) - 1]
         i == caller.indices[caller.k + 1]
         slot == NewChildrenSlot(Len(caller.children), i, reverse)
     IN /\ stack' = Append(SubSeq(stack, 1, Len(stack) - 2),
                           [caller EXCEPT !.acc = ArraySet(@, slot, Top.ret), !.k = @ + 1])
        /\ heap' = [heap EXCEPT ![caller.node].kids = ArraySet(@, slot, Top.ret)]
  /\ UNCHANGED <<input, mime, nb, calls, res, out, inner, delay, status, result, found, error>>

\* a child's transformNode returned: newChildren[reverse ? length - 1 - i : i] = transformed
TransformReturn ==
  /\ status = "running"
  /\ op \in TransformOps
  /\ Len(stack) > 1
  /\ Top.phase = "return"
  /\ LET caller == stack[Len(stack) - 1]
         i == caller.indices[caller.k + 1]
         slot == NewChildrenSlot(Len(caller.children), i, reverse)
     IN stack' = Append(SubSeq(stack, 1, Len(stack) - 2),
                        [caller EXCEPT !.acc = ArraySet(@, slot, Top.ret), !.k = @ + 1])
  /\ UNCHANGED <<heap, input, mime, nb, calls, res, out, inner, delay, status, result, found, error>>

\* node.children = newChildren (when the node has children), then transformer(node, index, parent)
TransformCall ==
  /\ status = "running"
  /\ op \in TransformOps
  /\ stack # <<>>
  /\ \/ /\ Top.phase = "enter"
        /\ ~HasChildren(heap, Top.node)
        /\ UNCHANGED heap
     \/ /\ Top.phase = "loop"
        /\ Top.k = Len(Top.indices)
        /\ heap' = [heap EXCEPT ![Top.node].kids = Top.acc]
  /\ stack' = SetTop([Top EXCEPT !.phase = "await", !.call = Len(calls) + 1])
  /\ Invoke(Top.node, Top.index, Top.parent)
  /\ UNCHANGED <<input, mime, nb, status, result, found, error>>

\* (mutant) a returned false taken for a stop signal: the walk unwinds at once
TransformResumeStopsOnFalse ==
  /\ status = "running"
  /\ op \in TransformOps
  /\ stack # <<>>
  /\ Top.phase = "await"
  /\ Awaited(Top.call)
  /\ stack' = IF res[Top.call] = "false"
                THEN <<[stack[1] EXCEPT !.phase = "return", !.ret = Tree]>>
                ELSE SetTop([Top EXCEPT !.phase = "return",
                                        !.ret = OrNode(res[Top.call], out[Top.call], Top.node)])
  /\ UNCHANGED <<heap, input, mime, nb, calls, res, out, inner, delay, status, result, found, error>>

\* transformNode after `await transformer(...)`: return result || node
TransformResume ==
  /\ status = "running"
  /\ op \in TransformOps
  /\ stack # <<>>
  /\ Top.phase = "await"
  /\ Awaited(Top.call)
  /\ stack' = SetTop([Top EXCEPT !.phase = "return",
                                 !.ret = OrNode(res[Top.call], out[Top.call], Top.node)])
  /\ UNCHANGED <<heap, input, mime, nb, calls, res, out, inner, delay, status, result, found, error>>

\* transformNode(tree) returned: transform resolves with its result
TransformFinish ==
  /\ status = "running"
  /\ op \in TransformOps
  /\ Len(stack) = 1
  /\ Top.phase = "return"
  /\ stack' = <<>>
  /\ status' = "done"
  /\ result' = Top.ret
  /\ UNCHANGED <<heap, input, mime, nb, calls, res, out, inner, delay, found, error>>

(* ----------------------------------------------------------------- filter *)
\* what a predicate may return
PredicateResults == {"true", "false"}

\* the predicate returns (its promise resolves)
PredicateSettle ==
  /\ status = "running"
  /\ op = "filter"
  /\ \E c \in InFlight : \E r \in PredicateResults :
       /\ inner[c] = Pending
       /\ res' = [res EXCEPT ![c] = r]
       /\ inner' = [inner EXCEPT ![c] = r]
  /\ delay' = 0
  /\ UNCHANGED <<heap, input, mime, nb, stack, calls, out, status, result, found, error>>

\* filter(tree, predicate): await filterNode(tree) runs up to the first await
FilterStart ==
  /\ status = "idle"
  /\ op = "filter"
  /\ status' = "running"
  /\ stack' = <<Frame(Tree, NoIndex, NoNode, "await", Len(calls) + 1)>>
  /\ Invoke(Tree, NoIndex, NoNode)
  /\ UNCHANGED <<heap, input, mime, nb, result, found, error>>

\* filterNode after `await predicate(...)`: null when rejected, the node itself
\* when it has no children array, else set up the loop
FilterResume ==
  /\ status = "running"
  /\ op = "filter"
  /\ stack # <<>>
  /\ Top.phase = "await"
  /\ Awaited(Top.call)
  /\ IF Falsy(res[Top.call])
       THEN stack' = SetTop([Top EXCEPT !.phase = "return", !.ret = NoNode])
       ELSE IF HasChildren(heap, Top.node)
         THEN stack' = SetTop([Top EXCEPT !.phase = "loop",
                                          !.children = heap[Top.node].kids,
                                          !.acc = <<>>,
                                          !.k = 0])
         ELSE stack' = SetTop([Top EXCEPT !.phase = "return", !.ret = Top.node])
  /\ UNCHANGED <<heap, input, mime, nb, calls, res, out, inner, delay, status, result, found, error>>

\* for (let i = 0; i < children.length; i++) await filterNode(children[i], i, node)
FilterDescend ==
  /\ status = "running"
  /\ op = "filter"
  /\ stack # <<>>
  /\ Top.phase = "loop"
  /\ Top.k < Len(Top.children)
  /\ stack' = Append(stack, Frame(At(Top.children, Top.k), Top.k, Top.node, "await", Len(calls) + 1))
  /\ Invoke(At(Top.children, Top.k), Top.k, Top.node)
  /\ UNCHANGED <<heap, input, mime, nb, status, result, found, error>>

\* mutant: the result is put in front of the ones collected so far
FilterReturnUnshift ==
  /\ status = "running"
  /\ op = "filter"
  /\ Len(stack) > 1
  /\ Top.phase = "return"
  /\ LET caller == stack[Len(stack) - 1]
     IN stack' = Append(SubSeq(stack, 1, Len(stack) - 2),
                        [caller EXCEPT !.acc = IF Top.ret # NoNode THEN <<Top.ret>> \o @ ELSE @,
                                       !.k = @ + 1])
  /\ UNCHANGED <<heap, input, mime, nb, calls, res, out, inner, delay, status, result, found, error>>

\* a child's filterNode returned: if (result) filtered.push(result)
FilterReturn ==
  /\ status = "running"
  /\ op = "filter"
  /\ Len(stack) > 1
  /\ Top.phase = "return"
  /\ LET caller == stack[Len(stack) - 1]
     IN stack' = Append(SubSeq(stack, 1, Len(stack) - 2),
                        [caller EXCEPT !.acc = IF Top.ret # NoNode THEN Append(@, Top.ret) ELSE @,
                                       !.k = @ + 1])
  /\ UNCHANGED <<heap, input, mime, nb, calls, res, out, inner, delay, status, result, found, error>>

\* the copy made for an accepted node with children: { ...node, children: filtered }
SpreadWithChildren(h, n, filtered) == [h[n] EXCEPT !.kids = filtered]

\* mutant: the filtered children are stored in the node itself, which is returned
FilterBuildInPlace ==
  /\ status = "running"
  /\ op = "filter"
  /\ stack # <<>>
  /\ Top.phase = "loop"
  /\ Top.k = Len(Top.children)
  /\ heap' = [heap EXCEPT ![Top.node].kids = Top.acc]
  /\ stack' = SetTop([Top EXCEPT !.phase = "return", !.ret = Top.node])
  /\ UNCHANGED <<input, mime, nb, calls, res, out, inner, delay, status, result, found, error>>

\* the loop is exhausted: return { ...node, children: filtered }
FilterBuild ==
  /\ status = "running"
  /\ op = "filter"
  /\ stack # <<>>
  /\ Top.phase = "loop"
  /\ Top.k = Len(Top.children)
  /\ heap' = [heap EXCEPT ![Fresh(heap)] = SpreadWithChildren(heap, Top.node, Top.acc)]
  /\ stack' = SetTop([Top EXCEPT !.phase = "return", !.ret = Fresh(heap)])
  /\ UNCHANGED <<input, mime, nb, calls, res, out, inner, delay, status, result, found, error>>

\* mutant: the null of a rejected root is returned as it is
FilterFinishNull ==
  /\ status = "running"
  /\ op = "filter"
  /\ Len(stack) = 1
  /\ Top.phase = "return"
  /\ stack' = <<>>
  /\ status' = "done"
  /\ result' = Top.ret
  /\ UNCHANGED <<heap, input, mime, nb, calls, res, out, inner, delay, found, error>>

\* filterNode(tree) returned: return result || tree
FilterFinish ==
  /\ status = "running"
  /\ op = "filter"
  /\ Len(stack) = 1
  /\ Top.phase = "return"
  /\ stack' = <<>>
  /\ status' = "done"
  /\ result' = (IF Top.ret # NoNode THEN Top.ret ELSE Tree)
  /\ UNCHANGED <<heap, input, mime, nb, calls, res, out, inner, delay, found, error>>

(* ------------------------------------------------------------ exceptions *)
\* the callback throws (its promise rejects)
CallbackReject ==
  /\ status = "running"
  /\ \E c \in InFlight :
       /\ inner[c] = Pending
       /\ res' = [res EXCEPT ![c] = Rejected]
       /\ inner' = [inner EXCEPT ![c] = Rejected]
  /\ delay' = 0
  /\ UNCHANGED <<heap, input, mime, nb, stack, calls, out, status, result, found, error>>

\* the top activation is left by an exception: of its awaited callback, or of a child's activation
Throws ==
  /\ stack # <<>>
  /\ \/ Top.phase = "await" /\ res[Top.call] = Rejected
     \/ Top.phase = "throw"

\* the call whose exception leaves the top activation
Thrown == IF Top.phase = "throw" THEN Top.ret ELSE Top.call

\* no try / catch in visitNode, transformNode, filterNode: the rejection of the awaited
\* child activation rejects the awaiting one
Unwind ==
  /\ status = "running"
  /\ Throws
  /\ Len(stack) > 1
  /\ stack' = Append(SubSeq(stack, 1, Len(stack) - 2),
                     [stack[Len(stack) - 1] EXCEPT !.phase = "throw", !.ret = Thrown])
  /\ UNCHANGED <<heap, input, mime, nb, calls, res, out, inner, delay, status, result, found, error>>

\* the activation for the tree rejects: the operation rejects with the same error
Fail ==
  /\ status = "running"
  /\ Throws
  /\ Len(stack) = 1
  /\ stack' = <<>>
  /\ status' = "failed"
  /\ error' = Thrown
  /\ UNCHANGED <<heap, input, mime, nb, calls, res, out, inner, delay, result, found>>

(* ---------------------------------------------------------- find, findAll *)
\* the predicate handed to find / findAll returns (its promise resolves)
FindPredicateSettle ==
  /\ status = "running"
  /\ op \in FindOps
  /\ \E c \in InFlight : \E r \in PredicateResults :
       /\ inner[c] = Pending
       /\ inner' = [inner EXCEPT ![c] = r]
  /\ delay' = 0
  /\ UNCHANGED <<heap, input, mime, nb, stack, calls, res, out, status, result, found, error>>

\* mutant: the visitor records the match and does not return false
FindVisitorNoStop ==
  /\ status = "running"
  /\ op = "find"
  /\ \E c \in InFlight :
       /\ inner[c] \notin {Pending, NotInvoked}
       /\ found' = (IF ~Falsy(inner[c]) THEN <<calls[c].node>> ELSE found)
       /\ res' = [res EXCEPT ![c] = "undefined"]
  /\ UNCHANGED <<heap, input, mime, nb, stack, calls, out, inner, delay, status, result, error>>

\* find's visitor after `await predicate(node)`: found = node; return false, else return undefined
FindVisitor ==
  /\ status = "running"
  /\ op = "find"
  /\ \E c \in InFlight :
       /\ inner[c] \notin {Pending, NotInvoked}
       /\ IF ~Falsy(inner[c])
            THEN /\ found' = <<calls[c].node>>
                 /\ res' = [res EXCEPT ![c] = "false"]
            ELSE /\ found' = found
                 /\ res' = [res EXCEPT ![c] = "undefined"]
  /\ UNCHANGED <<heap, input, mime, nb, stack, calls, out, inner, delay, status, result, error>>

\* mutant: the visitor returns what the predicate returned
FindAllVisitorReturnsResult ==
  /\ status = "running"
  /\ op = "findAll"
  /\ \E c \in InFlight :
       /\ inner[c] \notin {Pending, NotInvoked}
       /\ found' = (IF ~Falsy(inner[c]) THEN Append(found, calls[c].node) ELSE found)
       /\ res' = [res EXCEPT ![c] = inner[c]]
  /\ UNCHANGED <<heap, input, mime, nb, stack, calls, out, inner, delay, status, result, error>>

\* findAll's visitor after `await predicate(node)`: results.push(node); it returns nothing
FindAllVisitor ==
  /\ status = "running"
  /\ op = "findAll"
  /\ \E c \in InFlight :
       /\ inner[c] \notin {Pending, NotInvoked}
       /\ found' = (IF ~Falsy(inner[c]) THEN Append(found, calls[c].node) ELSE found)
       /\ res' = [res EXCEPT ![c] = "undefined"]
  /\ UNCHANGED <<heap, input, mime, nb, stack, calls, out, inner, delay, status, result, error>>

\* visit has resolved: find returns found (or null), findAll returns results
FindFinish ==
  /\ status = "running"
  /\ op \in FindOps
  /\ Len(stack) = 1
  /\ Top.phase = "return"
  /\ stack' = <<>>
  /\ status' = "done"
  /\ result' = (IF op = "find" /\ found # <<>> THEN found[1] ELSE NoNode)
  /\ UNCHANGED <<heap, input, mime, nb, calls, res, out, inner, delay, found, error>>

(* ------------------------------------------------ MIME functions applied *)
\* the walker is not running
WalkerIdle ==
  /\ nNodes = 0
  /\ heap = [o \in Obj |-> Free]
  /\ orig = heap
  /\ op = "none"
  /\ reverse = FALSE
  /\ tagged = {}
  /\ stack = <<>>
  /\ calls = <<>>
  /\ res = <<>>
  /\ out = <<>>
  /\ inner = <<>>
  /\ found = <<>>
  /\ error = NoCall
  /\ delay = 0
  /\ status = "idle"
  /\ result = NoNode

walker == <<heap, orig, nNodes, op, reverse, tagged, stack, calls, res, out, inner, delay,
            status, result, found, error>>

Categorize ==
  /\ op = "none" /\ mime.fn = "none"
  /\ \E m \in MimeTypes :
       mime' = [mime EXCEPT !.fn = "getMimeTypeCategory", !.id = m,
                            !.cat = getMimeTypeCategory(m)]
  /\ UNCHANGED <<walker, nb>>

SelectBest ==
  /\ op = "none" /\ mime.fn = "none"
  /\ \E l \in MimeLists :
       mime' = [mime EXCEPT !.fn = "selectBestMimeType", !.list = l,
                            !.best = selectBestMimeType(l)]
  /\ UNCHANGED <<walker, nb>>

Normalize ==
  /\ op = "none" /\ mime.fn = "none"
  /\ \E m \in MimeTypes, d \in Payloads :
       mime' = [mime EXCEPT !.fn = "normalizeMimeData", !.id = m, !.payload = d,
                            !.data = normalizeMimeData(m, d)]
  /\ UNCHANGED <<walker, nb>>

BestOutput ==
  /\ op = "none" /\ mime.fn = "none"
  /\ \E o \in Outputs :
       mime' = [mime EXCEPT !.fn = "getBestOutputMimeType", !.output = o,
                            !.best = getBestOutputMimeType(o)]
  /\ UNCHANGED <<walker, nb>>

(* ------------------------------------------------------------------ parse *)
\* parseCell up to its first await: the converted cell, or a pending promise
\* for a markdown cell that is handed to the markdown processor
StartsPending(cell, pm) == cell.cell_type = "markdown" /\ pm

parseCell(cell, pm) ==
  CASE cell.cell_type = "code" -> parseCodeCell(cell)
    [] cell.cell_type = "markdown" ->
         IF pm THEN NoCell ELSE parseMarkdownCellPlain(cell)
    [] cell.cell_type = "raw" -> parseRawCell(cell)

\* the cell object with its identity
Identified(cell, i) == [cell EXCEPT !.id = i]

\* notebook.cells.map((cell) => parseCell(cell, lang, options)): every
\* conversion is started before parse awaits
ParseStart ==
  /\ nb.status = "idle"
  /\ nb' = [nb EXCEPT
       !.status = "parsing",
       !.promises = [i \in DOMAIN nb.cells |->
                       IF StartsPending(nb.cells[i], nb.parseMarkdown)
                       THEN "pending" ELSE "fulfilled"],
       !.converted = [i \in DOMAIN nb.cells |->
                        IF StartsPending(nb.cells[i], nb.parseMarkdown)
                        THEN NoCell
                        ELSE Identified(parseCell(nb.cells[i], nb.parseMarkdown), i)]]
  /\ UNCHANGED <<walker, mime>>

\* the markdown processor returns the tree of one pending cell
MarkdownSettle ==
  /\ nb.status \in {"parsing", "failed"}
  /\ \E i \in DOMAIN nb.promises, tree \in MdastTrees :
       /\ nb.promises[i] = "pending"
       /\ nb' = [nb EXCEPT
            !.promises[i] = "fulfilled",
            !.converted[i] = Identified(parseMarkdownCellParsed(nb.cells[i], tree), i),
            !.settled = Append(@, i)]
  /\ UNCHANGED <<walker, mime>>

\* the markdown processor throws for one pending cell
MarkdownReject ==
  /\ nb.status \in {"parsing", "failed"}
  /\ \E i \in DOMAIN nb.promises :
       /\ nb.promises[i] = "pending"
       /\ nb' = [nb EXCEPT !.promises[i] = "rejected", !.settled = Append(@, i)]
  /\ UNCHANGED <<walker, mime>>

\* (mutant) the cells put into the root in the order of their completion
ParseFinishCompletionOrder ==
  /\ nb.status = "parsing"
  /\ \A i \in DOMAIN nb.promises : nb.promises[i] = "fulfilled"
  /\ LET rest == SelectSeq([i \in DOMAIN nb.cells |-> i],
                           LAMBDA i : \A k \in DOMAIN nb.settled : nb.settled[k] # i)
         order == nb.settled \o rest
     IN nb' = [nb EXCEPT !.status = "parsed",
                         !.root = RootOf([k \in DOMAIN order |-> nb.converted[order[k]]])]
  /\ UNCHANGED <<walker, mime>>

\* Promise.all fulfils when every promise has: the cells in input order
ParseFinish ==
  /\ nb.status = "parsing"
  /\ \A i \in DOMAIN nb.promises : nb.promises[i] = "fulfilled"
  /\ nb' = [nb EXCEPT !.status = "parsed", !.root = RootOf(nb.converted)]
  /\ UNCHANGED <<walker, mime>>

\* Promise.all rejects as soon as one promise has: parse returns nothing
ParseFail ==
  /\ nb.status = "parsing"
  /\ \E i \in DOMAIN nb.promises : nb.promises[i] = "rejected"
  /\ nb' = [nb EXCEPT !.status = "failed"]
  /\ UNCHANGED <<walker, mime>>

(* ------------------------------------------------ common transformers    *)
\* String.prototype.trim: the blanks at both ends dropped
RECURSIVE TrimStart(_)
TrimStart(s) == IF s # <<>> /\ Head(s) = " " THEN TrimStart(Tail(s)) ELSE s
RECURSIVE TrimEnd(_)
TrimEnd(s) ==
  IF s # <<>> /\ s[Len(s)] = " " THEN TrimEnd(SubSeq(s, 1, Len(s) - 1)) ELSE s
Trim(s) == TrimEnd(TrimStart(s))


\* tags.some((tag) => cellTags.includes(tag))
SomeTag(tags, cell) == \E tag \in tags : tag \in CellTags(cell)

\* (mutant) the last child kept instead of the first
removeOutputsKeepsLast(node) ==
  IF node.type # "root" THEN node
  ELSE LET cells == node.children
       IN [node EXCEPT !.children =
             [i \in DOMAIN cells |->
                IF cells[i].cellType = "code" /\ Len(cells[i].children) > 1
                THEN [cells[i] EXCEPT
                        !.children = <<cells[i].children[Len(cells[i].children)]>>]
                ELSE cells[i]]]

removeOutputs(node) ==
  IF node.type # "root" THEN node
  ELSE LET cells == node.children
       IN [node EXCEPT !.children =
             [i \in DOMAIN cells |->
                IF cells[i].cellType = "code" /\ Len(cells[i].children) > 1
                THEN [cells[i] EXCEPT !.children = <<cells[i].children[1]>>]
                ELSE cells[i]]]

\* (mutant) the cells kept when every given tag is carried
removeCellsByTagAll(tags, node) ==
  IF node.type # "root" THEN node
  ELSE [node EXCEPT !.children =
          SelectSeq(@, LAMBDA cell : ~(\A tag \in tags : tag \in CellTags(cell)))]

removeCellsByTag(tags, node) ==
  IF node.type # "root" THEN node
  ELSE [node EXCEPT !.children = SelectSeq(@, LAMBDA cell : ~SomeTag(tags, cell))]

\* (mutant) the predicate without the trim
HasContentUntrimmed(cell) ==
  IF cell.cellType = "code" THEN Len(cell.children[1].value) > 0
  ELSE IF cell.cellType = "markdown"
       THEN IF cell.children[1].type = "markdown"
            THEN Len(cell.children[1].value) > 0
            ELSE Len(cell.children[1].children) > 0
  ELSE TRUE

\* the predicate of removeEmptyCells
HasContent(cell) ==
  IF cell.cellType = "code" THEN Len(Trim(cell.children[1].value)) > 0
  ELSE IF cell.cellType = "markdown"
       THEN IF cell.children[1].type = "markdown"
            THEN Len(Trim(cell.children[1].value)) > 0
            ELSE Len(cell.children[1].children) > 0
  ELSE TRUE

removeEmptyCells(node) ==
  IF node.type # "root" THEN node
  ELSE [node EXCEPT !.children = SelectSeq(@, HasContent)]

\* (mutant) the cells that carry a tag moved to the front, the others kept
extractCellsByTagFirst(tags, node) ==
  IF node.type # "root" THEN node
  ELSE [node EXCEPT !.children =
          SelectSeq(@, LAMBDA cell : SomeTag(tags, cell))
            \o SelectSeq(@, LAMBDA cell : ~SomeTag(tags, cell))]

extractCellsByTag(tags, node) ==
  IF node.type # "root" THEN node
  ELSE [node EXCEPT !.children = SelectSeq(@, LAMBDA cell : SomeTag(tags, cell))]

\* the node a transformer is called on: the root (0) or one of its cells
Targets == {0} \cup DOMAIN nb.root.children
TargetNode(t) == IF t = 0 THEN nb.root ELSE nb.root.children[t]

\* the tree after the transformer has mutated its argument in place
Mutated(t, node) ==
  IF t = 0 THEN node ELSE [nb.root EXCEPT !.children[t] = node]

\* a transformer applied to a node of the parsed tree
Applied(t, node) ==
  /\ nb' = [nb EXCEPT !.root = Mutated(t, node)]
  /\ UNCHANGED <<walker, mime>>

RemoveOutputs ==
  /\ nb.status = "parsed"
  /\ \E t \in Targets : Applied(t, removeOutputs(TargetNode(t)))

RemoveCellsByTag ==
  /\ nb.status = "parsed"
  /\ \E t \in Targets, tags \in SUBSET Tags :
       Applied(t, removeCellsByTag(tags, TargetNode(t)))

RemoveEmptyCells ==
  /\ nb.status = "parsed"
  /\ \E t \in Targets : Applied(t, removeEmptyCells(TargetNode(t)))

ExtractCellsByTag ==
  /\ nb.status = "parsed"
  /\ \E t \in Targets, tags \in SUBSET Tags :
       Applied(t, extractCellsByTag(tags, TargetNode(t)))

(* ------------------------------------------ the input tree, for the claims *)
\* the nodes of the input tree
Nodes == 1 .. nNodes

\* the parent of n in the input tree (NoNode for the root)
ParentOf(n) ==
  IF \E p \in Nodes : \E j \in 1 .. Len(orig[p].kids) : orig[p].kids[j] = n
    THEN CHOOSE p \in Nodes : \E j \in 1 .. Len(orig[p].kids) : orig[p].kids[j] = n
    ELSE NoNode

\* the 0-based position of n in its parent's children (NoIndex for the root)
IndexOf(n) ==
  IF ParentOf(n) = NoNode THEN NoIndex
  ELSE (CHOOSE j \in 1 .. Len(orig[ParentOf(n)].kids) : orig[ParentOf(n)].kids[j] = n) - 1

RECURSIVE Ancestors(_)
Ancestors(n) == IF ParentOf(n) = NoNode THEN {} ELSE {ParentOf(n)} \cup Ancestors(ParentOf(n))

\* the calls made on node n
CallsOn(n) == {c \in 1 .. Len(calls) : calls[c].node = n}

\* the position of the (single) call on n in the call sequence
CallPos(n) == CHOOSE c \in 1 .. Len(calls) : calls[c].node = n

\* no visitor call returned the stop signal
NeverStopped == \A c \in 1 .. Len(calls) : res[c] # "false"

\* the node sequence of the calls made so far
CallNodes == [c \in 1 .. Len(calls) |-> calls[c].node]

\* the tree below object n as a value: fields and children, without object identity
RECURSIVE DeepVal(_, _)
DeepVal(h, n) ==
  [data |-> h[n].data, value |-> h[n].value, hasKids |-> h[n].hasKids,
   kids |-> [j \in 1 .. Len(h[n].kids) |->
               IF h[n].kids[j] = Hole THEN Free ELSE DeepVal(h, h[n].kids[j])]]

\* the node the transformer's result stands for at n: its return value, or n when it returned nothing
Returned(n) ==
  IF \E c \in CallsOn(n) : res[c] = "node"
    THEN out[CHOOSE c \in CallsOn(n) : res[c] = "node"]
    ELSE n

\* the transformer returned a new node for n
Replaced(n) == Returned(n) # n

\* the predicate accepted n
Accepted(n) == \E c \in CallsOn(n) : res[c] = "true"

\* the input tree in pre-order, children in the order of the traversal
RECURSIVE PreOrder(_), PreOrderKids(_, _)
PreOrder(n) == <<n>> \o PreOrderKids(n, 1)
PreOrderKids(n, j) ==
  IF j > Len(orig[n].kids) THEN <<>>
  ELSE PreOrder(At(orig[n].kids, Indices(Len(orig[n].kids), reverse)[j])) \o PreOrderKids(n, j + 1)

\* the input tree in post-order, children in the order of the traversal
RECURSIVE PostOrder(_), PostOrderKids(_, _)
PostOrder(n) == PostOrderKids(n, 1) \o <<n>>
PostOrderKids(n, j) ==
  IF j > Len(orig[n].kids) THEN <<>>
  ELSE PostOrder(At(orig[n].kids, Indices(Len(orig[n].kids), reverse)[j])) \o PostOrderKids(n, j + 1)

\* the input tree in pre-order, cut below the nodes the predicate rejected
RECURSIVE AcceptedOrder(_), AcceptedOrderKids(_, _)
AcceptedOrder(n) == <<n>> \o (IF Accepted(n) THEN AcceptedOrderKids(n, 1) ELSE <<>>)
AcceptedOrderKids(n, j) ==
  IF j > Len(orig[n].kids) THEN <<>>
  ELSE AcceptedOrder(orig[n].kids[j]) \o AcceptedOrderKids(n, j + 1)

\* what transform yields for n when no callback ever suspends, as a value
RECURSIVE RunTransform(_)
RunTransform(n) ==
  LET len == Len(orig[n].kids)
      self == [data |-> orig[n].data, value |-> orig[n].value, hasKids |-> orig[n].hasKids,
               kids |-> [s \in 1 .. len |->
                           RunTransform(At(orig[n].kids, IF reverse THEN len - 1 - (s - 1) ELSE s - 1))]]
  IN IF Replaced(n) THEN [self EXCEPT !.value = 1] ELSE self

\* the accepted children of n, in array order
RECURSIVE AcceptedKids(_, _)
AcceptedKids(n, j) ==
  IF j > Len(orig[n].kids) THEN <<>>
  ELSE (IF Accepted(orig[n].kids[j]) THEN <<orig[n].kids[j]>> ELSE <<>>) \o AcceptedKids(n, j + 1)

\* what filter yields for an accepted node n when no callback ever suspends, as a value
RECURSIVE RunFilter(_)
RunFilter(n) ==
  [data |-> orig[n].data, value |-> orig[n].value, hasKids |-> orig[n].hasKids,
   kids |-> [j \in 1 .. Len(AcceptedKids(n, 1)) |-> RunFilter(AcceptedKids(n, 1)[j])]]

(* -------------------------------------------------------------- claims   *)
\* C1: a visit whose visitor never returns false calls the visitor exactly once
\* on every node, on a node before its descendants, on siblings in array order
\* (reverse array order under reverse), and passes each node's actual index and
\* parent (neither for the root).
C1_VisitPreOrder ==
  (op = "visit" /\ status = "done" /\ NeverStopped) =>
    /\ Len(calls) = nNodes
    /\ \A n \in Nodes : Cardinality(CallsOn(n)) = 1
    /\ \A a, b \in Nodes : a \in Ancestors(b) => CallPos(a) < CallPos(b)
    /\ \A a, b \in Nodes :
         (ParentOf(a) # NoNode /\ ParentOf(a) = ParentOf(b) /\ IndexOf(a) < IndexOf(b)) =>
            IF reverse THEN CallPos(b) < CallPos(a) ELSE CallPos(a) < CallPos(b)
    /\ \A c \in 1 .. Len(calls) :
         /\ calls[c].index = IndexOf(calls[c].node)
         /\ calls[c].parent = ParentOf(calls[c].node)

\* a finished reverse visit without stop of a tree with a node of two children and a grandchild
C1_Witness ==
  /\ op = "visit" /\ status = "done" /\ NeverStopped /\ reverse
  /\ \E n \in Nodes : Len(orig[n].kids) >= 2
  /\ \E n \in Nodes : Ancestors(n) # {} /\ Ancestors(n) # {Tree}

\* C2: once the visitor has returned false on its k-th call no further call is
\* made: the visitor has been called exactly k times, whatever is left of the
\* tree (descendants, later siblings, remaining children of ancestors).
C2_StopHalts ==
  op = "visit" => \A k \in 1 .. Len(calls) : res[k] = "false" => Len(calls) = k

\* a visit stopped on a grandchild with children of an ancestor still unvisited
C2_Witness ==
  /\ op = "visit" /\ status = "done"
  /\ \E k \in 1 .. Len(calls) :
       /\ res[k] = "false"
       /\ calls[k].parent \notin {NoNode, Tree}
       /\ k < nNodes

\* C3: with asynchronous callbacks at most one callback is in flight at any
\* time, so the sequence of callback invocations and the result depend only on
\* the tree, the options and what the callbacks return, not on how long any
\* callback stays suspended.
C3_OneInFlight ==
  /\ Cardinality(InFlight) <= 1
  /\ status = "done" =>
       CASE op = "visit" ->
              /\ CallNodes = SubSeq(PreOrder(Tree), 1, Len(calls))
              /\ \A c \in 1 .. (Len(calls) - 1) : res[c] # "false"
              /\ Len(calls) = nNodes \/ res[Len(calls)] = "false"
         [] op = "transform" ->
              /\ CallNodes = PostOrder(Tree)
              /\ DeepVal(heap, result) = RunTransform(Tree)
         [] op = "filter" ->
              /\ CallNodes = AcceptedOrder(Tree)
              /\ DeepVal(heap, result) = (IF Accepted(Tree) THEN RunFilter(Tree) ELSE DeepVal(orig, Tree))

\* a second callback is suspended for a while after the first one completed
C3_Witness ==
  /\ Cardinality(InFlight) = 1
  /\ delay >= 1
  /\ Len(calls) >= 2
  /\ op = "transform"

\* the nodes of the input tree below n
Descendants(n) == {d \in Nodes : n \in Ancestors(d)}

\* the transformer's results for the children of n, each at its child's position
ReturnedKids(n) == [j \in 1 .. Len(orig[n].kids) |-> Returned(orig[n].kids[j])]

\* C4: the transformer runs on a node only after it has run (and completed) on
\* every descendant of the node, and the node it is given carries, at each
\* child's position, the transformer's result for that child.
C4_ChildrenFirst ==
  op = "transform" =>
    \A c \in 1 .. Len(calls) :
      /\ \A d \in Descendants(calls[c].node) :
           \E b \in 1 .. (c - 1) : calls[b].node = d /\ res[b] # Pending
      /\ HasChildren(orig, calls[c].node) =>
           heap[calls[c].node].kids = ReturnedKids(calls[c].node)

\* C5: after transform with reverse, every parent's children sequence holds at
\* position i the transformer's result for the original child at position i,
\* as after transform without reverse.
C5_ReverseKeepsOrder ==
  (op = "transform" /\ status = "done" /\ reverse) =>
    \A p \in Nodes : \A j \in 1 .. Len(orig[p].kids) :
      /\ Len(heap[p].kids) = Len(orig[p].kids)
      /\ heap[p].kids[j] = Returned(orig[p].kids[j])

\* every transformer call returned the node it was given
IdentityTransformer == \A c \in 1 .. Len(calls) : res[c] = "node" /\ out[c] = calls[c].node

\* C6: transform with the identity transformer and default options returns a
\* tree deep-equal to the input tree, children order included.
C6_IdentityTransform ==
  (op = "transform" /\ status = "done" /\ ~reverse /\ IdentityTransformer) =>
    DeepVal(heap, result) = DeepVal(orig, Tree)

\* an identity transform of a tree with a node of two children and a grandchild
C6_Witness ==
  /\ op = "transform" /\ status = "done" /\ ~reverse /\ IdentityTransformer
  /\ \E n \in Nodes : Len(orig[n].kids) >= 2
  /\ \E n \in Nodes : Ancestors(n) # {} /\ Ancestors(n) # {Tree}

\* C7: the node the transformer returns for n stands at n's position in the
\* children of n's parent (for the root: is the value transform returns); when
\* it returns nothing n itself stays there, and a root for which nothing is
\* returned is itself the result, carrying its rewritten children.
C7_ReplacementInPlace ==
  (op = "transform" /\ status = "done") =>
    /\ result = Returned(Tree)
    /\ \A n \in Nodes \ {Tree} :
         /\ Len(heap[ParentOf(n)].kids) = Len(orig[ParentOf(n)].kids)
         /\ At(heap[ParentOf(n)].kids, IndexOf(n)) = Returned(n)
    /\ (~Replaced(Tree) /\ HasChildren(orig, Tree)) =>
         \A j \in 1 .. Len(heap[Tree].kids) :
           \E n \in Nodes \ {Tree} : ParentOf(n) = Tree /\ heap[Tree].kids[j] = Returned(n)

\* the objects of the tree below object r
RECURSIVE Reach(_, _)
Reach(h, r) == {r} \cup UNION {Reach(h, h[r].kids[j]) : j \in 1 .. Len(h[r].kids)}

\* the input nodes that the predicate accepted together with all their ancestors
Kept == {n \in Nodes : Accepted(n) /\ \A a \in Ancestors(n) : Accepted(a)}

\* C8: when the predicate accepts the root, the result of filter holds exactly
\* the nodes accepted together with all their ancestors, each under its
\* parent with the surviving children in their original order; the predicate is
\* never evaluated below a rejected node.
C8_FilterKeepsAccepted ==
  op = "filter" =>
    /\ \A c \in 1 .. Len(calls) : \A a \in Ancestors(calls[c].node) : Accepted(a)
    /\ (status = "done" /\ Accepted(Tree)) =>
         /\ {heap[r].data : r \in Reach(heap, result)} = Kept
         /\ Cardinality(Reach(heap, result)) = Cardinality(Kept)
         /\ heap[result].data = Tree
         /\ \A r \in Reach(heap, result) :
              [j \in 1 .. Len(heap[r].kids) |-> heap[heap[r].kids[j]].data]
                = AcceptedKids(heap[r].data, 1)

\* a filter that dropped a node with children and kept a later sibling and a grandchild
C8_Witness ==
  /\ op = "filter" /\ status = "done" /\ Accepted(Tree)
  /\ \E n \in Nodes : CallsOn(n) # {} /\ ~Accepted(n) /\ orig[n].kids # <<>>
  /\ Cardinality(Kept) >= 2

\* C9: filter leaves every node of its input as it was: same fields, same children sequence.
C9_FilterLeavesInput ==
  op = "filter" => \A n \in Nodes : heap[n] = orig[n]

\* a finished filter whose result lacks a child of the input root
C9_Witness ==
  /\ op = "filter" /\ status = "done" /\ Accepted(Tree)
  /\ Len(heap[result].kids) < Len(orig[Tree].kids)

\* C10: with a predicate that accepts every node, filter returns a tree
\* deep-equal to the input whose root is another object than the input root,
\* also when the input is a single leaf.
C10_AllTrueIsCopy ==
  (op = "filter" /\ status = "done" /\ \A c \in 1 .. Len(calls) : res[c] = "true") =>
    /\ DeepVal(heap, result) = DeepVal(orig, Tree)
    /\ result # Tree

\* C11: when the predicate rejects the root, filter evaluates the predicate on
\* no other node and returns the input root object itself, its whole subtree
\* as it was.
C11_RejectedRoot ==
  (op = "filter" /\ Len(calls) >= 1 /\ res[1] = "false") =>
    /\ Len(calls) = 1
    /\ status = "done" =>
         /\ result = Tree
         /\ \A n \in Nodes : heap[n] = orig[n]
         /\ DeepVal(heap, result) = DeepVal(orig, Tree)

\* a finished filter of a tree with grandchildren whose root was rejected
C11_Witness ==
  /\ op = "filter" /\ status = "done"
  /\ res[1] = "false"
  /\ \E n \in Nodes : Ancestors(n) # {} /\ Ancestors(n) # {Tree}

\* the calls on which the predicate handed to find / findAll held
Matched == {c \in 1 .. Len(calls) : inner[c] = "true"}

\* the nodes of the calls cs, in call order
RECURSIVE NodesOfCalls(_, _)
NodesOfCalls(cs, c) ==
  IF c > Len(calls) THEN <<>>
  ELSE (IF c \in cs THEN <<calls[c].node>> ELSE <<>>) \o NodesOfCalls(cs, c + 1)

\* C12: find evaluates the predicate along the pre-order of the tree and on no
\* node after the first one on which it holds; it returns that node, and null
\* when the predicate holds on no node.
C12_FindFirst ==
  op = "find" =>
    /\ CallNodes = SubSeq(PreOrder(Tree), 1, Len(calls))
    /\ \A c \in Matched : Len(calls) = c
    /\ status = "done" =>
         IF Matched = {}
           THEN result = NoNode /\ Len(calls) = nNodes
           ELSE \E c \in Matched : result = calls[c].node

\* a finished find whose first match is neither the first nor the last node
C12_Witness ==
  /\ op = "find" /\ status = "done"
  /\ \E c \in Matched : 1 < c /\ c < nNodes

\* C13: findAll evaluates the predicate on every node, in pre-order, whatever
\* it returns, and returns exactly the nodes on which it held, each once, in
\* that order.
C13_FindAllComplete ==
  op = "findAll" =>
    /\ CallNodes = SubSeq(PreOrder(Tree), 1, Len(calls))
    /\ status = "done" =>
         /\ Len(calls) = nNodes
         /\ found = NodesOfCalls(Matched, 1)
         /\ \A n \in Nodes :
              Cardinality({j \in 1 .. Len(found) : found[j] = n})
                = (IF \E c \in Matched : calls[c].node = n THEN 1 ELSE 0)

\* a finished findAll whose predicate failed on the root and held on two later nodes
C13_Witness ==
  /\ op = "findAll" /\ status = "done"
  /\ inner[1] = "false"
  /\ Len(found) >= 2

\* C14: visitType and transformType reach the nodes as visit and transform do
\* and invoke the supplied callback on exactly the reached nodes whose type is
\* the requested one; a node of another type is traversed, is not passed to the
\* callback and, under transformType, stays in the tree itself.
C14_TypeOnly ==
  op \in TypeOps =>
    /\ \A c \in 1 .. Len(calls) : (inner[c] # NotInvoked) <=> IsType(orig, calls[c].node)
    /\ op = "visitType" =>
         /\ CallNodes = SubSeq(PreOrder(Tree), 1, Len(calls))
         /\ (status = "done" /\ NeverStopped) => Len(calls) = nNodes
    /\ op = "transformType" =>
         /\ CallNodes = SubSeq(PostOrder(Tree), 1, Len(calls))
         /\ status = "done" =>
              /\ Len(calls) = nNodes
              /\ \A n \in Nodes : ~IsType(orig, n) =>
                   /\ ~Replaced(n)
                   /\ IF n = Tree THEN result = Tree
                      ELSE \E j \in 1 .. Len(heap[ParentOf(n)].kids) : heap[ParentOf(n)].kids[j] = n

\* a finished transformType that replaced a node of the type below a node of another type
C14_Witness ==
  /\ op = "transformType" /\ status = "done"
  /\ \E n \in Nodes : IsType(orig, n) /\ Replaced(n) /\ ParentOf(n) # NoNode /\ ~IsType(orig, ParentOf(n))
  /\ \E n \in Nodes : ~IsType(orig, n) /\ orig[n].kids = <<>>

\* C15: when a visitor, transformer or predicate throws (or rejects) at some
\* node, no callback is invoked on any further node, the operation returns no
\* result and, once unwound, has failed with that same error.
C15_ThrowAborts ==
  \A c \in 1 .. Len(calls) : res[c] = Rejected =>
    /\ Len(calls) = c
    /\ status # "done"
    /\ result = NoNode
    /\ stack = <<>> => (status = "failed" /\ error = c)

\* a transform that failed on a node below the root with nodes left to process
C15_Witness ==
  /\ op = "transform" /\ status = "failed"
  /\ calls[error].parent # NoNode
  /\ Len(calls) < nNodes
  /\ Len(calls) > 1

(* ------------------------------------------------------------------ C16  *)
\* the tests of the classifier in their fixed order, each with its category
CategoryTests(m) ==
  << <<isWidgetMimeType(m), "widget">>,
     <<isVisualizationMimeType(m), "visualization">>,
     <<isImageMimeType(m), "image">>,
     <<isJsonMimeType(m), "json">>,
     <<isBinaryMimeType(m), "binary">>,
     <<isTextMimeType(m), "text">> >>

\* C16: getMimeTypeCategory returns the category of the first test that
\* matches in the order widget, visualization, image, json, binary, text,
\* and 'unknown' when none matches; a widget identifier or one with a
\* visualization vendor prefix is never 'json', also when it ends in '+json'.
C16_CategoryOrder ==
  mime.fn = "getMimeTypeCategory" =>
    LET t == CategoryTests(mime.id)
        hits == {i \in DOMAIN t : t[i][1]}
    IN /\ hits = {} => mime.cat = "unknown"
       /\ \A i \in hits : (\A j \in hits : i <= j) => mime.cat = t[i][2]
       /\ (isWidgetMimeType(mime.id) \/ isVisualizationMimeType(mime.id))
            => mime.cat # "json"

\* a vendor identifier that ends in '+json' and no table names is a visualization
C16_Witness ==
  /\ mime.fn = "getMimeTypeCategory"
  /\ mime.id \notin Values(VISUALIZATION_MIME_TYPES)
  /\ isVisualizationMimeType(mime.id)
  /\ EndsWith(mime.id, <<"+json">>)
  /\ mime.cat = "visualization"

(* ------------------------------------------------------------------ C17  *)
\* C17: for every list, selectBestMimeType returns the element at the
\* smallest index whose priority (0 when absent from the table) is the
\* maximum over the list, hence the first element when all score 0 and the
\* same element in every order when the maximum is unique; the empty list
\* gives undefined.
C17_SelectFirstMax ==
  mime.fn = "selectBestMimeType" =>
    LET l == mime.list
        max(i) == \A j \in DOMAIN l : getMimeTypePriority(l[j]) <= getMimeTypePriority(l[i])
        first == {i \in DOMAIN l : max(i) /\ \A j \in 1 .. i - 1 : ~max(j)}
    IN /\ l = <<>> => mime.best = Undefined
       /\ l # <<>> => \E i \in first : mime.best = l[i]
       /\ (l # <<>> /\ \A i \in DOMAIN l : getMimeTypePriority(l[i]) = 0)
            => mime.best = l[1]
       /\ \A i \in first :
            (\A j \in DOMAIN l : max(j) => l[j] = l[i])
              => \A perm \in [DOMAIN l -> DOMAIN l] :
                   (\A a, b \in DOMAIN l : perm[a] = perm[b] => a = b)
                     => selectBestMimeType([a \in DOMAIN l |-> l[perm[a]]]) = mime.best

\* two different identifiers that both score 0: the first is returned
C17_Witness ==
  /\ mime.fn = "selectBestMimeType"
  /\ Len(mime.list) = MaxList
  /\ \A i \in DOMAIN mime.list : getMimeTypePriority(mime.list[i]) = 0
  /\ mime.list[1] # mime.list[MaxList]
  /\ mime.best = mime.list[1]

(* ------------------------------------------------------------------ C18  *)
\* C18 as stated: normalizeMimeData returns the concatenation exactly when
\* the payload is a sequence and the identifier's category is 'text', and
\* the payload unchanged otherwise.
C18_JoinIffTextCategory ==
  mime.fn = "normalizeMimeData" =>
    IF IsArray(mime.payload) /\ getMimeTypeCategory(mime.id) = "text"
    THEN mime.data = StringData(Join(mime.payload.items))
    ELSE mime.data = mime.payload

\* C18 amended: normalizeMimeData returns the concatenation exactly when the
\* payload is a sequence and the identifier is of category 'text' or is
\* image/svg+xml (the text-content identifiers), and the payload unchanged
\* otherwise.
C18_JoinIffTextContent ==
  mime.fn = "normalizeMimeData" =>
    IF /\ IsArray(mime.payload)
       /\ \/ getMimeTypeCategory(mime.id) = "text"
          \/ mime.id = IMAGE_MIME_TYPES.SVG
    THEN /\ mime.data.kind = "string"
         /\ mime.data.str = Join(mime.payload.items)
    ELSE mime.data = mime.payload

\* an SVG payload given as fragments is joined although its category is 'image'
C18_Witness ==
  /\ mime.fn = "normalizeMimeData"
  /\ mime.id = IMAGE_MIME_TYPES.SVG
  /\ getMimeTypeCategory(mime.id) = "image"
  /\ IsArray(mime.payload)
  /\ Len(mime.payload.items) = MaxFrags
  /\ mime.data = StringData(Join(mime.payload.items))
  /\ mime.data.str # <<>>

(* ------------------------------------------------------------------ C19  *)
\* C19: for every identifier v of VISUALIZATION_MIME_TYPES, selectBestMimeType
\* applied to a list holding text/plain and v, in either order, returns v.
C19_VisualizationOverText ==
  mime.fn = "selectBestMimeType" =>
    \A v \in Values(VISUALIZATION_MIME_TYPES) :
      mime.list \in {<<TEXT_MIME_TYPES.PLAIN, v>>, <<v, TEXT_MIME_TYPES.PLAIN>>}
        => mime.best = v

(* ------------------------------------------------------------------ C20  *)
\* the identifiers of an output as the claim lists them
OutputIdentifiers(o) ==
  CASE o.type = "stream" -> <<TEXT_MIME_TYPES.PLAIN>>
    [] o.type = "error" -> <<JUPYTER_MIME_TYPES.ERROR>>
    [] o.type \in {"displayData", "executeResult"} -> o.keys

\* C20: getBestOutputMimeType(output) is selectBestMimeType of the output's
\* identifiers: the bundle keys in bundle order for display-data and
\* execute-result, text/plain for a stream, application/vnd.jupyter.error
\* for an error; an empty bundle gives undefined.
C20_BestOfOutput ==
  mime.fn = "getBestOutputMimeType" =>
    LET ids == OutputIdentifiers(mime.output)
    IN /\ mime.best = selectBestMimeType(ids)
       /\ mime.output.type = "stream" => mime.best = TEXT_MIME_TYPES.PLAIN
       /\ mime.output.type = "error" => mime.best = JUPYTER_MIME_TYPES.ERROR
       /\ ids = <<>> => mime.best = Undefined
       /\ ids # <<>> =>
            \E i \in DOMAIN ids :
              /\ mime.best = ids[i]
              /\ \A j \in DOMAIN ids :
                   getMimeTypePriority(ids[j]) <= getMimeTypePriority(ids[i])

\* a bundle whose best identifier is not its first key
C20_Witness ==
  /\ mime.fn = "getBestOutputMimeType"
  /\ mime.output.type = "executeResult"
  /\ Len(mime.output.keys) = MaxList
  /\ mime.output.keys[1] = TEXT_MIME_TYPES.PLAIN
  /\ mime.best = mime.output.keys[MaxList]

(* ------------------------------------------------------------------ C21  *)
\* the cells of the parsed tree as it is now
Cells == nb.root.children

\* C21: after removeOutputs(root) every code cell has exactly one child, its
\* original first child, which is the code node; markdown and raw cells, the
\* number of cells and their order are unchanged; removeOutputs applied to a
\* node that is not a root changes nothing.
C21_RemoveOutputs ==
  nb.status = "parsed" =>
    LET after == removeOutputs(nb.root).children
    IN /\ Len(after) = Len(Cells)
       /\ \A i \in DOMAIN Cells :
            /\ after[i].id = Cells[i].id
            /\ after[i].cellType = Cells[i].cellType
            /\ after[i].metadata = Cells[i].metadata
            /\ Cells[i].cellType = "code" =>
                 /\ after[i].children = <<Cells[i].children[1]>>
                 /\ after[i].children[1].type = "code"
            /\ Cells[i].cellType # "code" => after[i] = Cells[i]
            /\ removeOutputs(Cells[i]) = Cells[i]

\* a code cell parsed with outputs has lost them, next to a markdown cell
C21_Witness ==
  /\ nb.status = "parsed"
  /\ Len(Cells) = MaxCells
  /\ \E i, j \in DOMAIN Cells :
       /\ Cells[i].id = i /\ Cells[j].id = j
       /\ Len(nb.cells[i].outputs) = MaxOutputs
       /\ Len(Cells[i].children) = 1
       /\ Cells[i].children[1].type = "code"
       /\ Cells[j].cellType = "markdown"

(* ------------------------------------------------------------------ C22  *)
\* the identities of the cells of a sequence, as a set
Ids(cells) == {cells[i].id : i \in DOMAIN cells}

\* C22: removeCellsByTag(tags) keeps, in original order, exactly the cells
\* that carry none of the tags, extractCellsByTag(tags) exactly those that
\* carry at least one; the two kept sets partition the cells.
C22_TagPartition ==
  nb.status = "parsed" =>
    \A tags \in SUBSET Tags :
      LET removed == removeCellsByTag(tags, nb.root).children
          extracted == extractCellsByTag(tags, nb.root).children
      IN /\ removed = SelectSeq(Cells, LAMBDA c : CellTags(c) \cap tags = {})
         /\ extracted = SelectSeq(Cells, LAMBDA c : CellTags(c) \cap tags # {})
         /\ Ids(removed) \cup Ids(extracted) = Ids(Cells)
         /\ Ids(removed) \cap Ids(extracted) = {}
         /\ Len(removed) + Len(extracted) = Len(Cells)

\* of a cell tagged t1 and a cell tagged t1 and t2 only the first is left:
\* the cells tagged t2 have been removed
C22_Witness ==
  /\ nb.status = "parsed"
  /\ Len(nb.cells) = MaxCells
  /\ nb.cells[1].metadata = WithTags({"t1"})
  /\ nb.cells[MaxCells].metadata = WithTags({"t1", "t2"})
  /\ Len(Cells) = 1
  /\ Cells[1].id = 1

(* ------------------------------------------------------------------ C23  *)
\* empty or made of blanks only
Blank(s) == \A i \in DOMAIN s : s[i] = " "

\* a code cell with a blank source, a markdown cell with a blank text or
\* with a parsed representation that has no children
EmptyCell(c) ==
  \/ c.cellType = "code" /\ Blank(c.children[1].value)
  \/ /\ c.cellType = "markdown"
     /\ \/ c.children[1].type = "markdown" /\ Blank(c.children[1].value)
        \/ c.children[1].type = "parsedMarkdown" /\ c.children[1].children = <<>>

\* C23: after removeEmptyCells(root) no remaining code cell has a blank
\* source and no remaining markdown cell a blank text or a parsed
\* representation without children; every other cell, raw cells included,
\* is kept, in original order.
C23_RemoveEmptyCells ==
  nb.status = "parsed" =>
    LET after == removeEmptyCells(nb.root).children
    IN /\ \A i \in DOMAIN after : ~EmptyCell(after[i])
       /\ after = SelectSeq(Cells, LAMBDA c : ~EmptyCell(c))
       /\ \A i \in DOMAIN Cells :
            Cells[i].cellType = "raw" => Cells[i].id \in Ids(after)

\* a code cell whose source is one blank is gone, a raw cell with an empty
\* source is still there
C23_Witness ==
  /\ nb.status = "parsed"
  /\ Len(nb.cells) = MaxCells
  /\ nb.cells[1].cell_type = "code"
  /\ normalizeSource(nb.cells[1].source) = <<" ">>
  /\ nb.cells[MaxCells].cell_type = "raw"
  /\ normalizeSource(nb.cells[MaxCells].source) = <<>>
  /\ Len(Cells) = MaxCells - 1
  /\ Cells[MaxCells - 1].id = MaxCells
  /\ 1 \notin Ids(Cells)

(* ------------------------------------------------------------------ C24  *)
\* the node type an output of the notebook is converted to
OutputNodeType(output_type) ==
  CASE output_type = "stream" -> "stream"
    [] output_type = "display_data" -> "displayData"
    [] output_type = "execute_result" -> "executeResult"
    [] output_type = "error" -> "error"

\* C24: in a root produced by parse a code cell's first child is a code
\* node and its other children are the cell's outputs, converted one to one
\* in their order; a markdown cell has exactly one child, a markdown node
\* when parseMarkdown is off and a parsedMarkdown node when it is on; a raw
\* cell has exactly one raw child.
C24_CellShape ==
  nb.status = "parsed" =>
    \A i \in DOMAIN Cells :
      LET cell == nb.cells[i]
          kids == Cells[i].children
      IN /\ Cells[i].type = "cell"
         /\ Cells[i].cellType = cell.cell_type
         /\ cell.cell_type = "code" =>
              /\ Len(kids) = 1 + Len(cell.outputs)
              /\ kids[1].type = "code"
              /\ \A k \in DOMAIN cell.outputs :
                   kids[k + 1].type = OutputNodeType(cell.outputs[k].output_type)
         /\ cell.cell_type = "markdown" =>
              /\ Len(kids) = 1
              /\ kids[1].type = (IF nb.parseMarkdown THEN "parsedMarkdown" ELSE "markdown")
         /\ cell.cell_type = "raw" => Len(kids) = 1 /\ kids[1].type = "raw"

\* a code cell with outputs of different types next to a parsed markdown cell
C24_Witness ==
  /\ nb.status = "parsed"
  /\ nb.parseMarkdown
  /\ \E i, j \in DOMAIN Cells :
       /\ nb.cells[i].cell_type = "code"
       /\ Len(nb.cells[i].outputs) = MaxOutputs
       /\ nb.cells[i].outputs[1].output_type = "stream"
       /\ nb.cells[i].outputs[MaxOutputs].output_type = "error"
       /\ Cells[i].children[MaxOutputs + 1].type = "error"
       /\ Cells[j].children[1].type = "parsedMarkdown"

(* ------------------------------------------------------------------ C25  *)
\* the fragments one after the other, built from the last one backwards
RECURSIVE Concat(_)
Concat(a) ==
  IF a = <<>> THEN <<>> ELSE Concat(SubSeq(a, 1, Len(a) - 1)) \o a[Len(a)]

\* a text as one string: the string itself, or its fragments concatenated
AsOneString(t) == IF t.kind = "array" THEN Concat(t.items) ELSE t.str

\* C25: parse turns a cell source and a stream text given as fragments
\* into their in-order concatenation without separator and keeps a single
\* string as it is; the MIME bundle payloads of display-data and
\* execute-result outputs are passed through unchanged, a sequence stays a
\* sequence.
C25_TextsJoined ==
  nb.status = "parsed" =>
    \A i \in DOMAIN Cells :
      LET cell == nb.cells[i]
          kids == Cells[i].children
      IN /\ kids[1].type \in {"code", "markdown", "raw"} =>
              kids[1].value = AsOneString(cell.source)
         /\ kids[1].type = "parsedMarkdown" =>
              kids[1].data = StringData(AsOneString(cell.source))
         /\ \A k \in DOMAIN cell.outputs :
              /\ cell.outputs[k].output_type = "stream" =>
                   kids[k + 1].text = AsOneString(cell.outputs[k].text)
              /\ cell.outputs[k].output_type \in {"display_data", "execute_result"} =>
                   kids[k + 1].data = cell.outputs[k].data

\* a source of two different fragments is joined, the fragments of a
\* payload are not
C25_Witness ==
  /\ nb.status = "parsed"
  /\ nb.cells[1].source.kind = "array"
  /\ Len(nb.cells[1].source.items) = MaxFrags
  /\ nb.cells[1].source.items[1] = <<"a">>
  /\ nb.cells[1].source.items[MaxFrags] = <<"b">>
  /\ Cells[1].children[1].value[1] = "a"
  /\ Len(Cells[1].children) = 2
  /\ Cells[1].children[2].type = "displayData"
  /\ Cells[1].children[2].data.kind = "array"
  /\ Len(Cells[1].children[2].data.items) = MaxFrags

(* ------------------------------------------------------------------ C26  *)
\* the two sequences hold the same elements the same number of times
SameElements(s, t) ==
  /\ Len(s) = Len(t)
  /\ \A v \in {s[j] : j \in DOMAIN s} \cup {t[j] : j \in DOMAIN t} :
       Cardinality({j \in DOMAIN s : s[j] = v}) = Cardinality({j \in DOMAIN t : t[j] = v})

\* C26: when the transformer throws at node x, x and the nodes of every
\* subtree completed before x carry their replaced children sequences (the
\* transformer's results for their children), and every proper ancestor of
\* x still holds its original children sequence.
C26_PartialMutation ==
  op = "transform" =>
    \A c \in 1 .. Len(calls) : res[c] = Rejected =>
      /\ \A b \in 1 .. c :
           HasChildren(orig, calls[b].node) =>
             /\ SameElements(heap[calls[b].node].kids, ReturnedKids(calls[b].node))
             /\ ~reverse => heap[calls[b].node].kids = ReturnedKids(calls[b].node)
      /\ \A a \in Ancestors(calls[c].node) : heap[a].kids = orig[a].kids

\* the transformer threw at a node whose child and whose earlier sibling it
\* had replaced: the child's replacement is installed, the sibling's is not
C26_Witness ==
  /\ op = "transform" /\ status = "failed" /\ ~reverse
  /\ LET x == calls[error].node
     IN /\ ParentOf(x) # NoNode
        /\ \E k \in 1 .. Len(orig[x].kids) :
             Replaced(orig[x].kids[k]) /\ heap[x].kids[k] # orig[x].kids[k]
        /\ \E s \in Nodes :
             /\ ParentOf(s) = ParentOf(x) /\ s # x
             /\ Replaced(s)
             /\ \A j \in 1 .. Len(heap[ParentOf(x)].kids) :
                  heap[ParentOf(x)].kids[j] # Returned(s)

(* ------------------------------------------------------------------ C27  *)
\* C27: parse starts the conversion of every cell before it waits, and
\* returns only when all are done; whatever the order in which the markdown
\* parses complete, the i-th child of the root is the conversion of the
\* i-th cell and the root has as many children as the notebook has cells;
\* when a conversion fails, parse fails and returns no root.
C27_ParseAll ==
  /\ nb.status = "idle" => nb.promises = <<>> /\ nb.settled = <<>>
  /\ nb.status \in {"parsing", "parsed", "failed"} =>
       DOMAIN nb.promises = DOMAIN nb.cells
  /\ nb.status = "parsed" =>
       /\ \A i \in DOMAIN nb.promises : nb.promises[i] = "fulfilled"
       /\ Len(Cells) = Len(nb.cells)
       /\ \A i \in DOMAIN Cells :
            /\ Cells[i].id = i
            /\ Cells[i] = nb.converted[i]
            /\ Cells[i].cellType = nb.cells[i].cell_type
            /\ Cells[i].metadata = nb.cells[i].metadata
  /\ (\E i \in DOMAIN nb.promises : nb.promises[i] = "rejected") =>
       /\ nb.status \in {"parsing", "failed"}
       /\ nb.root = NoRoot
  /\ nb.status = "failed" => nb.root = NoRoot

\* the markdown parses completed in the reverse of the cell order
C27_Witness ==
  /\ nb.status = "parsed"
  /\ Len(nb.cells) = MaxCells
  /\ Len(nb.settled) = MaxCells
  /\ \A k \in DOMAIN nb.settled : nb.settled[k] = MaxCells + 1 - k
  /\ \A i \in DOMAIN Cells : Cells[i].children[1].type = "parsedMarkdown"

(* ------------------------------------------------------------------ C28  *)
\* every call so far is on a node of the input tree, and no node has two
OncePerNode ==
  /\ \A c \in 1 .. Len(calls) : calls[c].node \in Nodes
  /\ \A n \in Nodes : Cardinality(CallsOn(n)) <= 1
  /\ status = "done" =>
       /\ \A n \in Nodes : Cardinality(CallsOn(n)) = 1
       /\ \A c \in 1 .. Len(calls) : res[c] \in {"undefined", "false", "node"}

\* C28: transform invokes the transformer exactly once on every node of the
\* input tree whatever the transformer returns (a returned false does not
\* stop the walk), never on a node that a transformer returned as a
\* replacement, and it terminates.
C28_OncePerNode == [](op = "transform" => OncePerNode) /\ <>(op = "transform" => status = "done")

\* a walk that finished although an earlier call returned false and another
\* call returned a replacement
C28_Witness ==
  /\ op = "transform"
  /\ status = "done"
  /\ nNodes >= 3
  /\ Len(calls) = nNodes
  /\ \E c \in 1 .. (Len(calls) - 1) : res[c] = "false"
  /\ \E c \in 1 .. (Len(calls) - 1) : res[c] = "node" /\ out[c] \notin Nodes

(* ------------------------------------------------------------------ C29  *)
\* the node types of the outputs of a code cell
OutputNodeTypes == {"stream", "displayData", "executeResult", "error"}

\* s is t cut after some of its first elements
IsPrefix(s, t) == Len(s) <= Len(t) /\ \A k \in DOMAIN s : s[k] = t[k]

\* C29: in a root that parse produced, after any sequence of removeOutputs,
\* removeCellsByTag, removeEmptyCells and extractCellsByTag, a code cell has
\* a code node as its first child followed only by output nodes, a markdown
\* or raw cell has exactly one child, and the cells are a subsequence of the
\* cells parse produced.
C29_ShapeKept ==
  nb.status = "parsed" =>
    /\ \A i \in DOMAIN Cells :
         LET cell == Cells[i]
             was == nb.converted[cell.id]
         IN /\ cell.type = "cell"
            /\ cell.cellType = "code" =>
                 /\ Len(cell.children) >= 1
                 /\ cell.children[1].type = "code"
                 /\ \A k \in 2 .. Len(cell.children) :
                      cell.children[k].type \in OutputNodeTypes
            /\ cell.cellType = "markdown" =>
                 /\ Len(cell.children) = 1
                 /\ cell.children[1].type \in {"markdown", "parsedMarkdown"}
            /\ cell.cellType = "raw" =>
                 /\ Len(cell.children) = 1
                 /\ cell.children[1].type = "raw"
            /\ cell.id \in DOMAIN nb.converted
            /\ cell.cellType = was.cellType
            /\ cell.metadata = was.metadata
            /\ IsPrefix(cell.children, was.children)
    /\ \A i, j \in DOMAIN Cells : i < j => Cells[i].id < Cells[j].id

\* a cell was removed and the outputs of a remaining code cell were removed:
\* at least two of the transformers have acted
C29_Witness ==
  /\ nb.status = "parsed"
  /\ Len(nb.cells) = MaxCells
  /\ Len(Cells) = 1
  /\ Cells[1].id = MaxCells
  /\ Cells[1].cellType = "code"
  /\ Len(Cells[1].children) = 1
  /\ Len(nb.converted[Cells[1].id].children) > 1

(* ------------------------------------------------------------------ C30  *)
\* C30: while the transformer runs on a child, the parent it was passed
\* still holds its original children; a node's children are replaced as a
\* whole, after the transformer completed on every child and before the
\* transformer is called on the node itself, never one by one.
C30_ParentUntouched ==
  op = "transform" =>
    /\ \A c \in 1 .. Len(calls) :
         (res[c] = Pending /\ calls[c].parent # NoNode) =>
           heap[calls[c].parent].kids = orig[calls[c].parent].kids
    /\ \A p \in Nodes :
         HasChildren(orig, p) =>
           IF CallsOn(p) = {}
             THEN heap[p].kids = orig[p].kids
             ELSE /\ \A j \in 1 .. Len(orig[p].kids) :
                       \E b \in 1 .. (CallPos(p) - 1) :
                         calls[b].node = orig[p].kids[j] /\ res[b] # Pending
                  /\ SameElements(heap[p].kids, ReturnedKids(p))
                  /\ ~reverse => heap[p].kids = ReturnedKids(p)

\* the transformer runs on the second child of a node whose first child it
\* has replaced
C30_Witness ==
  /\ op = "transform"
  /\ ~reverse
  /\ \E c \in 1 .. Len(calls) :
       /\ res[c] = Pending
       /\ calls[c].parent # NoNode
       /\ calls[c].index >= 1
       /\ Replaced(orig[calls[c].parent].kids[1])
       /\ heap[calls[c].parent].kids = orig[calls[c].parent].kids

(* ------------------------------------------------------- specifications *)
NextVisit ==
  \/ CallbackTick
  \/ VisitorSettle
  \/ VisitStart
  \/ VisitResume
  \/ VisitDescend
  \/ VisitLoopEnd
  \/ VisitReturn
  \/ VisitFinish

NextTransform ==
  \/ CallbackTick
  \/ TransformerSettle
  \/ TransformStart
  \/ TransformEnter
  \/ TransformDescend
  \/ TransformReturn
  \/ TransformCall
  \/ TransformResume
  \/ TransformFinish

NextFilter ==
  \/ CallbackTick
  \/ PredicateSettle
  \/ FilterStart
  \/ FilterResume
  \/ FilterDescend
  \/ FilterReturn
  \/ FilterBuild
  \/ FilterFinish

\* visit alone
InitVisit == InitOps({"visit"})
SpecVisit == InitVisit /\ [][NextVisit]_vars

\* transform alone
InitTransform == InitOps({"transform"})
SpecTransform == InitTransform /\ [][NextTransform]_vars

\* transform alone, where every transformer call settles and every
\* continuation that can run does run
SpecTransformLive == SpecTransform /\ WF_vars(NextTransform)

\* filter alone
InitFilter == InitOps({"filter"})
SpecFilter == InitFilter /\ [][NextFilter]_vars

\* find and findAll
NextFind ==
  \/ CallbackTick
  \/ FindPredicateSettle
  \/ FindVisitor
  \/ FindAllVisitor
  \/ VisitStart
  \/ VisitResume
  \/ VisitDescend
  \/ VisitLoopEnd
  \/ VisitReturn
  \/ FindFinish

InitFind == InitOps(FindOps)
SpecFind == InitFind /\ [][NextFind]_vars

\* visitType and transformType
NextType ==
  \/ CallbackTick
  \/ WrapperSkip
  \/ VisitorSettle
  \/ VisitStart
  \/ VisitResume
  \/ VisitDescend
  \/ VisitLoopEnd
  \/ VisitReturn
  \/ VisitFinish
  \/ TransformerSettle
  \/ TransformStart
  \/ TransformEnter
  \/ TransformDescend
  \/ TransformReturn
  \/ TransformCall
  \/ TransformResume
  \/ TransformFinish

InitType == InitOps(TypeOps)
SpecType == InitType /\ [][NextType]_vars

\* any of the three operations
Init == InitOps({"visit", "transform", "filter"})

Next ==
  \/ CallbackTick
  \/ VisitorSettle
  \/ VisitStart
  \/ VisitResume
  \/ VisitDescend
  \/ VisitLoopEnd
  \/ VisitReturn
  \/ VisitFinish
  \/ TransformerSettle
  \/ TransformStart
  \/ TransformEnter
  \/ TransformDescend
  \/ TransformReturn
  \/ TransformCall
  \/ TransformResume
  \/ TransformFinish
  \/ PredicateSettle
  \/ FilterStart
  \/ FilterResume
  \/ FilterDescend
  \/ FilterReturn
  \/ FilterBuild
  \/ FilterFinish

Spec == Init /\ [][Next]_vars

\* the three operations with callbacks that may throw
NextThrow ==
  \/ Next
  \/ CallbackReject
  \/ Unwind
  \/ Fail

SpecThrow == Init /\ [][NextThrow]_vars

\* the MIME functions, each applied once to inputs of the bounded sets
NextMime ==
  \/ Categorize
  \/ SelectBest
  \/ Normalize
  \/ BestOutput

InitMime == WalkerIdle /\ mime = MimeIdle /\ nb = NbIdle
SpecMime == InitMime /\ [][NextMime]_vars

\* parse of a notebook
NextParse ==
  \/ ParseStart
  \/ MarkdownSettle
  \/ MarkdownReject
  \/ ParseFinish
  \/ ParseFail

\* parse, then the common transformers on the tree it returned
NextNotebook ==
  \/ NextParse
  \/ RemoveOutputs
  \/ RemoveCellsByTag
  \/ RemoveEmptyCells
  \/ ExtractCellsByTag

\* notebooks whose cells differ in their outputs
InitParse == WalkerIdle /\ mime = MimeIdle /\ NbInit(SeqsUpTo(OutputCells, MaxCells))
SpecParse == InitParse /\ [][NextParse]_vars

\* notebooks of one cell that differ in their texts
InitParseText == WalkerIdle /\ mime = MimeIdle /\ NbInit({<<c>> : c \in TextCells})
SpecParseText == InitParseText /\ [][NextParse]_vars

\* notebooks whose cells differ in their source, their outputs or their tags
InitNotebook ==
  WalkerIdle /\ mime = MimeIdle /\ NbInit(SeqsUpTo(ContentCells \cup StreamCells \cup TagCells, MaxCells))
SpecNotebook == InitNotebook /\ [][NextNotebook]_vars

====
